---------------------------- MODULE Spec2Model ----------------------------
(***************************************************************************)
(* L1 -> L2 state synchronisation of the madara node (crate                *)
(* mc-state-sync): the sync pipeline of lib.rs (create_and_run, the        *)
(* fetcher task and the state write task of run), the L1 state-diff        *)
(* reconstruction of ethereum.rs with its retry over the endpoints and the *)
(* decoders of parse_da.rs; the Starknet DA client and the DA store of     *)
(* the client database.                                                    *)
(*                                                                         *)
(* Seven specifications share the variables:                               *)
(*   Spec       the sync pipeline on an L1 chain of LogStateUpdate logs;   *)
(*   SpecDiff   query_state_diff for one state update;                     *)
(*   SpecRetry  get_logs_retry and calculate_backoff;                      *)
(*   SpecTasks  get_logs_retry called by the tasks of one batch;           *)
(*   SpecParse  the decoders of parse_da.rs on a list of cells;            *)
(*   SpecDa     publish_state_diff of the Starknet DA client;              *)
(*   SpecDaDb   the operations of da_db.rs on the DA columns.              *)
(* Each leaves the others' variables at their idle values.                 *)
(***************************************************************************)
EXTENDS Integers, Sequences, FiniteSets

(***************************************************************************)
(* Program constants.                                                      *)
(***************************************************************************)
STATE_SEARCH_STEP == 10
LOG_SEARCH_STEP == 1000

(***************************************************************************)
(* Bounds of the model.                                                    *)
(***************************************************************************)
\* LogStateUpdate logs on the L1 chain; their L2 block numbers are 0..NumUpdates-1
NumUpdates == 3
\* restarts of the node (create_and_run called again on the same database)
MaxRestarts == 1

(***************************************************************************)
(* Generic helpers.                                                        *)
(***************************************************************************)
None == [tag |-> "None"]

\* Result
Ok(v) == [kind |-> "Ok", value |-> v]
Err(e) == [kind |-> "Err", err |-> e]

Range(s) == {s[i] : i \in 1..Len(s)}

SetMax(S) == CHOOSE x \in S : \A y \in S : y <= x

\* u64::saturating_sub
SaturatingSub(a, b) == IF a >= b THEN a - b ELSE 0

\* Vec::reverse
Reverse(s) == [i \in 1..Len(s) |-> s[Len(s) + 1 - i]]

RECURSIVE Flatten(_)
\* Iterator::flatten over a Vec of Vecs
Flatten(ss) == IF ss = <<>> THEN <<>> ELSE Head(ss) \o Flatten(Tail(ss))

\* every ordering of the elements of a sequence
Orderings(s) ==
    LET n == Len(s)
        P == {p \in [1..n -> 1..n] : \A i, j \in 1..n : p[i] = p[j] => i = j}
    IN {[i \in 1..n |-> s[p[i]]] : p \in P}

\* non-decreasing sequences of length n over the set S of numbers
NonDecreasing(S, n) == {s \in [1..n -> S] : \A i \in 1..(n - 1) : s[i] <= s[i + 1]}

(***************************************************************************)
(* The L1 chain seen by the pipeline: the LogStateUpdate logs of the core  *)
(* contract in chain order.  The core contract accepts L2 block n + 1      *)
(* after block n, so L2 block numbers grow along the chain and no number   *)
(* occurs twice.                                                           *)
(***************************************************************************)
\* L1 heights at which an update may sit: inside the first window of either
\* configured start, outside it, and a LOG_SEARCH_STEP further
L1Heights == {2, 8, 14, 1004}

\* L1 head (eth_blockNumber) candidates
L1Heads == {14, 15, 1100}

L1Starts == {0, 5}
L2Starts == {0, 1}

\* block hashes are abstract: a non-default value determined by the number
HashOf(n) == n + 1
DefaultHash == 0

\* StateUpdate { eth_origin, update } of the i-th log of a chain placed at heights hs
StateUpdateLog(hs, i) ==
    [eth_origin |-> [block_hash |-> HashOf(hs[i]),
                     block_number |-> hs[i],
                     transaction_index |-> Cardinality({j \in 1..(i - 1) : hs[j] = hs[i]})],
     update |-> [block_number |-> i - 1, block_hash |-> HashOf(i - 1)]]

Chains == {[i \in 1..NumUpdates |-> StateUpdateLog(hs, i)] : hs \in NonDecreasing(L1Heights, NumUpdates)}

\* at most one update of the chain has no LogStateTransitionFact log in its block
MissingFacts == {{}} \cup {{n} : n \in 0..(NumUpdates - 1)}

VARIABLES
    \* ---- environment of the pipeline
    chain,                  \* the LogStateUpdate logs on L1, in chain order
    missing_fact,           \* L2 numbers of the updates whose LogStateTransitionFact log is absent
    l1_head,                \* the L1 head returned by get_block_number
    config,                 \* StateSyncConfig: l1_start, l2_start
    \* ---- persistent state
    persisted,              \* META column: the last L1L2BlockMapping, or None
    \* ---- pipeline
    main,                   \* "boot" (before create_and_run), "running", "stopped"
    fpc,                    \* fetcher task: "init", "loop", "sleep", "scanning"
    eth_from_height,        \* fetcher local
    starknet_start_height,  \* fetcher local
    highest_eth_block_number, \* what get_block_number returned to the last
                            \* query_state_update call; -1 when it failed or none was made
    chan,                   \* the unbounded mpsc channel of Vec<FetchState>
    wpc,                    \* writer task: "recv", "apply", "persist", "done" (ended)
    fetched_states,         \* writer: the batch being written
    widx,                   \* writer: index of the next element to apply
    sync_status,            \* Arc<Mutex<SyncStatus>>
    \* ---- observation of the pipeline (history)
    restarts,               \* restarts so far
    appliedOk,              \* L2 numbers for which apply_state_diff returned Ok
    applyCalls,             \* L2 numbers passed to apply_state_diff for the current batch
    nApplyOk,               \* this run: apply_state_diff calls that returned Ok
    nCursorWrites,          \* this run: cursor writes of the writer task
    nBatches,               \* this run: batches received by the writer task
    cursorBy,               \* who wrote persisted last: "none", "startup", "writer"
    lastSent,               \* the batch sent last
    lastSentFrom,           \* the l2 cursor passed to the fetch that produced lastSent
    fetch_res               \* what state_diff returned last: "", "Ok" or the Error

VARIABLES
    \* ---- history of the current run of the pipeline
    sent,                   \* the batches the fetcher has sent, in the order of the sends
    received,               \* the batches rx.next() has yielded, in that order
    applied                 \* the L2 numbers passed to apply_state_diff, in the order of the calls

historyVars == <<sent, received, applied>>

pipeVars == <<chain, missing_fact, l1_head, config, persisted, main, fpc, eth_from_height,
              starknet_start_height, highest_eth_block_number, chan, wpc, fetched_states, widx, sync_status,
              restarts, appliedOk, applyCalls, nApplyOk, nCursorWrites, nBatches,
              cursorBy, lastSent, lastSentFrom, fetch_res, historyVars>>

VARIABLES
    \* ---- query_state_diff for one state update
    dpc,                    \* "idle", "fact", "pages", "cont", "tx", "decode", "done", "err", "panic"
    update_l1,              \* state_update.eth_origin.block_number
    v011_diff_format_height,\* EthereumStateFetcher field, from the configuration
    fact_logs,              \* the logs get_logs returned to query_state_transition_fact
    fact,                   \* the LogStateTransitionFact found
    pages_list,             \* pages_hashes of the LogMemoryPagesHashes event found
    page_logs,              \* the LogMemoryPageFactContinuous logs on L1, in chain order
    continuous_logs,        \* continuous_logs_with_tx_hash
    tx_idx,                 \* index of the next element of continuous_logs to decode
    tx_input_data,          \* the diff blob being concatenated
    derr,                   \* the Error returned, "" when none
    decoders,               \* the decoders decode_state_diff has invoked
    constructor_args_diff_height, \* StateSyncConfig field
    pre_011_flags           \* the with_constructor_args values passed to decode_pre_011_diff

diffVars == <<dpc, update_l1, v011_diff_format_height, fact_logs, fact, pages_list, page_logs,
              continuous_logs, tx_idx, tx_input_data, derr, decoders,
              constructor_args_diff_height, pre_011_flags>>

VARIABLES
    \* ---- get_logs_retry calls of one EthereumStateFetcher
    rpc,                    \* "idle", "call", "loop", "sleep", "ok" (returned Ok), "failed" (returned Err),
                            \* "block_number_ok", "block_number_failed", "transaction_ok", "transaction_failed"
    eth_url_list,           \* the number of configured URLs; endpoint i serves eth_url_list[i]
    down,                   \* the endpoints whose get_logs fails
    current_provider_index, \* Arc<Mutex<usize>>
    retries,                \* local of get_logs_retry
    attempts,               \* this call: the endpoints get_logs was sent to, in order
    sleeps,                 \* this call: the durations slept, in seconds
    rotations,              \* this call: assignments to current_provider_index
    calls,                  \* calls returned so far
    backoff_of,             \* argument of the last direct call of calculate_backoff
    backoff                 \* its result, in seconds

retryVars == <<rpc, eth_url_list, down, current_provider_index, retries, attempts, sleeps,
               rotations, calls, backoff_of, backoff>>

VARIABLES
    \* ---- the decoders of parse_da.rs applied to one blob
    fact_input_sn_output,   \* the blob: a Vec<U256>
    decoder,                \* the decoder applied: "", "decode_011_diff", "decode_pre_011_diff"
    with_constructor_args,  \* the flag passed to decode_pre_011_diff
    decoded                 \* its outcome: Ok(StateDiff), Err or a panic

parseVars == <<fact_input_sn_output, decoder, with_constructor_args, decoded>>

VARIABLES
    \* ---- StarknetClient::publish_state_diff for one diff
    da_state_diff,          \* the argument state_diff: a Vec<U256>
    last_state,             \* what provider.call("LastState") returns
    send_ok,                \* whether sending the transaction succeeds
    da_sent,                \* the calldata of the UpdateState calls sent
    da_res                  \* "" before the call, then "Ok", "Err" or "panic"

daVars == <<da_state_diff, last_state, send_ok, da_sent, da_res>>

VARIABLES
    \* ---- DaDb: the DA and L1_HEADER columns of the database
    da_column,              \* columns::DA: the set of its (key, value) entries, as bytes
    l1_header_column,       \* columns::L1_HEADER, likewise
    \* ---- observation of the store (history)
    stored_diff,            \* per block hash: the diff of the last store_state_diff that returned Ok
    stored_job              \* per block hash: the job of the last update_cairo_job that returned Ok

dbVars == <<da_column, l1_header_column, stored_diff, stored_job>>

VARIABLES
    \* ---- concurrent get_logs_retry callers: the per-update tasks of one batch
    task_url_list,          \* eth_url_list.len() of the fetcher the tasks were cloned from
    task_down,              \* the endpoints whose get_logs fails
    shared_provider_index,  \* current_provider_index: one Arc<Mutex<usize>> for all clones
    task_pc,                \* per task: "idle", "call", "loop", "inflight", "sleep", "ok", "failed"
    task_provider,          \* per task: the endpoint of the provider built in this iteration
    task_retries,           \* per task: its local retries
    task_attempted          \* per task: the endpoints it has sent get_logs to

taskVars == <<task_url_list, task_down, shared_provider_index, task_pc, task_provider,
              task_retries, task_attempted>>

vars == <<pipeVars, diffVars, retryVars, parseVars, daVars, dbVars, taskVars>>

nonPipeVars == <<diffVars, retryVars, parseVars, daVars, dbVars, taskVars>>
nonDiffVars == <<pipeVars, retryVars, parseVars, daVars, dbVars, taskVars>>
nonRetryVars == <<pipeVars, diffVars, parseVars, daVars, dbVars, taskVars>>
nonParseVars == <<pipeVars, diffVars, retryVars, daVars, dbVars, taskVars>>
nonDaVars == <<pipeVars, diffVars, retryVars, parseVars, dbVars, taskVars>>
nonDbVars == <<pipeVars, diffVars, retryVars, parseVars, daVars, taskVars>>

nonTaskVars == <<pipeVars, diffVars, retryVars, parseVars, daVars, dbVars>>

\* query_state_diff tasks joined by one state_diff call
NumTasks == 2
Tasks == 1..NumTasks

\* URLs in the list of the fetcher the tasks share, at most
MaxTaskUrls == 3

\* no task of a batch is followed
TasksIdle ==
    /\ task_url_list = 0
    /\ task_down = {}
    /\ shared_provider_index = 0
    /\ task_pc = [t \in Tasks |-> "idle"]
    /\ task_provider = [t \in Tasks |-> 0]
    /\ task_retries = [t \in Tasks |-> 0]
    /\ task_attempted = [t \in Tasks |-> {}]

\* block hashes used as keys of the store
DbHashes == {1, 2}

\* an empty database on which no operation has returned
DbIdle ==
    /\ da_column = {}
    /\ l1_header_column = {}
    /\ stored_diff = [h \in DbHashes |-> <<>>]
    /\ stored_job = [h \in DbHashes |-> <<>>]

\* no publish_state_diff call is followed
DaIdle ==
    /\ da_state_diff = <<>>
    /\ last_state = [kind |-> "Err"]
    /\ send_ok = FALSE
    /\ da_sent = <<>>
    /\ da_res = ""

\* no get_logs_retry call is followed
RetryIdle ==
    /\ rpc = "idle"
    /\ eth_url_list = 0
    /\ down = {}
    /\ current_provider_index = 0
    /\ retries = 0
    /\ attempts = <<>>
    /\ sleeps = <<>>
    /\ rotations = 0
    /\ calls = 0
    /\ backoff_of = 0
    /\ backoff = 0

\* no decoder is applied
ParseIdle ==
    /\ fact_input_sn_output = <<>>
    /\ decoder = ""
    /\ with_constructor_args = FALSE
    /\ decoded = [kind |-> "none"]

\* query_state_diff is not running
DiffIdle ==
    /\ dpc = "idle"
    /\ update_l1 = 0
    /\ v011_diff_format_height = 0
    /\ fact_logs = <<>>
    /\ fact = 0
    /\ pages_list = <<>>
    /\ page_logs = <<>>
    /\ continuous_logs = <<>>
    /\ tx_idx = 0
    /\ tx_input_data = <<>>
    /\ derr = ""
    /\ decoders = {}
    /\ constructor_args_diff_height = 0
    /\ pre_011_flags = {}

(***************************************************************************)
(* lib.rs: FetchState and its order.                                       *)
(***************************************************************************)
\* a comparison with its operands exchanged: other.cmp(self)
FetchStateCmpExchanged(a, b) ==
    IF b.l1_l2_block_mapping.l2_block_number < a.l1_l2_block_mapping.l2_block_number THEN "Less"
    ELSE IF b.l1_l2_block_mapping.l2_block_number > a.l1_l2_block_mapping.l2_block_number THEN "Greater"
    ELSE "Equal"

\* impl Ord for FetchState: cmp on l1_l2_block_mapping.l2_block_number only
FetchStateCmp(a, b) ==
    IF a.l1_l2_block_mapping.l2_block_number < b.l1_l2_block_mapping.l2_block_number THEN "Less"
    ELSE IF a.l1_l2_block_mapping.l2_block_number > b.l1_l2_block_mapping.l2_block_number THEN "Greater"
    ELSE "Equal"

RECURSIVE InsertSorted(_, _)
InsertSorted(s, x) ==
    IF s = <<>> THEN <<x>>
    ELSE IF FetchStateCmp(x, Head(s)) = "Less" THEN <<x>> \o s
    ELSE <<Head(s)>> \o InsertSorted(Tail(s), x)

RECURSIVE SortStates(_)
\* Vec::sort (stable) under FetchStateCmp
SortStates(s) ==
    IF s = <<>> THEN <<>>
    ELSE InsertSorted(SortStates(SubSeq(s, 1, Len(s) - 1)), s[Len(s)])

\* a cursor write placed inside the for loop instead of after it
AfterApplyInsideLoop(idx, batch) == "persist"

\* state_write_task: the for loop over fetched_states.iter() goes on to the next
\* element, and the cursor is written after the last one
AfterApply(idx, batch) == IF idx > Len(batch) THEN "persist" ELSE "apply"

\* slice::last
LastOf(s) == IF s = <<>> THEN None ELSE s[Len(s)]

(***************************************************************************)
(* ethereum.rs: query_state_update.                                        *)
(***************************************************************************)
\* a filter that keeps every update
KeepUpdateAll(state_update, starknet_from) == TRUE

\* the filter closure of query_state_update: keep a decoded update unless its
\* L2 block number is below starknet_from
KeepUpdate(state_update, starknet_from) ==
    ~(state_update.update.block_number < starknet_from)

\* get_logs over [from, to] and the filter, in chain order
WindowUpdates(ch, from, to, starknet_from) ==
    SelectSeq(ch, LAMBDA u : /\ from <= u.eth_origin.block_number
                             /\ u.eth_origin.block_number <= to
                             /\ KeepUpdate(u, starknet_from))

RECURSIVE ScanForward(_, _, _, _, _)
\* the loop of query_state_update: return the first window that holds an update,
\* else move both bounds by LOG_SEARCH_STEP.  No log lies above the head, so a
\* window that starts above it and every later one is empty: the loop never
\* returns ("scanning").
ScanForward(ch, hd, from, to, starknet_from) ==
    IF from > hd THEN [kind |-> "scanning"]
    ELSE IF WindowUpdates(ch, from, to, starknet_from) /= <<>>
         THEN [kind |-> "Ok", updates |-> WindowUpdates(ch, from, to, starknet_from),
               from |-> from, to |-> to]
         ELSE ScanForward(ch, hd, from + LOG_SEARCH_STEP, to + LOG_SEARCH_STEP, starknet_from)

\* a status test that takes a cursor at the head as synced
StatusForInclusive(eth_from, hd) == IF eth_from >= hd THEN "SYNCED" ELSE "SYNCING"

\* the status query_state_update stores
StatusFor(eth_from, hd) == IF eth_from > hd THEN "SYNCED" ELSE "SYNCING"

\* query_state_update without RPC failures
QueryStateUpdate(ch, hd, eth_from, starknet_from) ==
    LET from == IF eth_from > hd THEN hd ELSE eth_from
        to == IF eth_from + STATE_SEARCH_STEP > hd THEN hd ELSE eth_from + STATE_SEARCH_STEP
    IN ScanForward(ch, hd, from, to, starknet_from)

RECURSIVE FiltersForward(_, _, _, _, _)
\* the (from_block, to_block) of the filters the loop of query_state_update
\* issues, up to the window it returns on; above the head every window is empty
\* and the loop goes on alike, so the list ends with the first window there
FiltersForward(ch, hd, from, to, starknet_from) ==
    <<[from |-> from, to |-> to]>>
    \o IF from > hd \/ WindowUpdates(ch, from, to, starknet_from) /= <<>>
       THEN <<>>
       ELSE FiltersForward(ch, hd, from + LOG_SEARCH_STEP, to + LOG_SEARCH_STEP, starknet_from)

\* the filters of one call of query_state_update
QueryStateUpdateFilters(ch, hd, eth_from, starknet_from) ==
    LET from == IF eth_from > hd THEN hd ELSE eth_from
        to == IF eth_from + STATE_SEARCH_STEP > hd THEN hd ELSE eth_from + STATE_SEARCH_STEP
    IN FiltersForward(ch, hd, from, to, starknet_from)

\* the FetchState query_state_diff builds for a state update
FetchStateOf(u) ==
    [l1_l2_block_mapping |->
        [l1_block_hash |-> u.eth_origin.block_hash,
         l1_block_number |-> u.eth_origin.block_number,
         l2_block_hash |-> u.update.block_hash,
         l2_block_number |-> u.update.block_number]]

\* query_state_diff for the updates of a batch when every RPC succeeds: the
\* update whose LogStateTransitionFact log is absent fails with L1StateError
QueryStateDiff(u, missing) ==
    IF u.update.block_number \in missing THEN Err("L1StateError") ELSE Ok(FetchStateOf(u))

\* a collection that leaves the failed updates out of the batch
CollectStatesSkipFailed(results) ==
    LET kept == SelectSeq(results, LAMBDA r : r.kind = "Ok")
    IN Ok([i \in 1..Len(kept) |-> kept[i].value])

\* StateFetcher::state_diff, after join_all: the first Err in the order of the
\* updates is returned, else the states in that order
CollectStates(results) ==
    LET failed == {i \in 1..Len(results) : results[i].kind = "Err"}
    IN IF failed /= {}
       THEN Err(results[CHOOSE i \in failed : \A j \in failed : i <= j].err)
       ELSE Ok([i \in 1..Len(results) |-> results[i].value])

\* StateFetcher::state_diff on the updates query_state_update returned
StateDiff(state_updates, missing) ==
    CollectStates([i \in 1..Len(state_updates) |-> QueryStateDiff(state_updates[i], missing)])

\* the errors of state_diff that do not come from an absent fact log
OtherErrors == {"L1Connection", "TypeError"}

\* SyncStatusOracle::is_major_syncing: the lock is never poisoned, since no
\* holder of it can panic
IsMajorSyncing == sync_status = "SYNCING"

\* SyncStatusOracle::is_offline
IsOffline == FALSE

(***************************************************************************)
(* lib.rs: create_and_run.                                                 *)
(***************************************************************************)
\* the mapping create_and_run writes, given the configuration and the result
\* of last_l1_l2_mapping() (None when there is none)
StartupMapping(cfg, last_mapping) ==
    LET mapping == [l1_block_hash |-> DefaultHash, l1_block_number |-> cfg.l1_start,
                    l2_block_hash |-> DefaultHash, l2_block_number |-> cfg.l2_start]
    IN IF last_mapping /= None
          /\ (\/ last_mapping.l1_block_number < mapping.l1_block_number
              \/ last_mapping.l2_block_number < mapping.l2_block_number)
       THEN [mapping EXCEPT !.l1_block_number = cfg.l1_start, !.l2_block_number = cfg.l2_start]
       ELSE mapping

InitPipeline ==
    /\ sent = <<>>
    /\ received = <<>>
    /\ applied = <<>>
    /\ chain \in Chains
    /\ missing_fact \in MissingFacts
    /\ l1_head \in {h \in L1Heads : h >= chain[Len(chain)].eth_origin.block_number}
    /\ config \in [l1_start : L1Starts, l2_start : L2Starts]
    /\ persisted = None
    /\ main = "boot"
    /\ fpc = "init"
    /\ eth_from_height = 0
    /\ starknet_start_height = 0
    /\ highest_eth_block_number = -1
    /\ chan = <<>>
    /\ wpc = "recv"
    /\ fetched_states = <<>>
    /\ widx = 1
    /\ sync_status = "SYNCING"
    /\ restarts = 0
    /\ appliedOk = {}
    /\ applyCalls = <<>>
    /\ nApplyOk = 0
    /\ nCursorWrites = 0
    /\ nBatches = 0
    /\ cursorBy = "none"
    /\ lastSent = <<>>
    /\ lastSentFrom = 0
    /\ fetch_res = ""

envVars == <<chain, missing_fact, l1_head, config>>
fetcherVars == <<fpc, eth_from_height, starknet_start_height, highest_eth_block_number>>
writerVars == <<wpc, fetched_states, widx>>
countVars == <<nApplyOk, nCursorWrites, nBatches>>

\* create_and_run: write the startup mapping (the write may fail: the function
\* returns the error and nothing runs), then start both tasks
CreateAndRun ==
    /\ UNCHANGED nonPipeVars
    /\ UNCHANGED historyVars
    /\ main = "boot"
    /\ \E ok \in BOOLEAN :
        IF ok
        THEN /\ persisted' = StartupMapping(config, persisted)
             /\ cursorBy' = "startup"
             /\ main' = "running"
        ELSE /\ main' = "stopped"
             /\ UNCHANGED <<persisted, cursorBy>>
    /\ sync_status' = "SYNCING"
    /\ UNCHANGED <<envVars, fetcherVars, chan, writerVars, restarts, appliedOk, applyCalls,
                   countVars, lastSent, lastSentFrom, fetch_res>>

\* fetcher_task, before its loop: read the cursor create_and_run has just written
FetcherInit ==
    /\ UNCHANGED nonPipeVars
    /\ UNCHANGED historyVars
    /\ main = "running" /\ fpc = "init"
    /\ eth_from_height' = persisted.l1_block_number
    /\ starknet_start_height' = persisted.l2_block_number
    /\ fpc' = "loop"
    /\ UNCHANGED <<envVars, persisted, main, highest_eth_block_number, chan, writerVars,
                   sync_status, restarts, appliedOk, applyCalls, countVars, cursorBy, lastSent,
                   lastSentFrom, fetch_res>>

\* a channel that hands the newest batch out first
SendInFront(channel, batch) == <<batch>> \o channel

\* tx.send(fetched_states) on the unbounded mpsc channel
Send(channel, batch) == Append(channel, batch)

\* one iteration of the fetcher loop in which state_diff returns Ok: the
\* provider returns the window's logs in some order, join_all keeps it
FetchOk ==
    /\ UNCHANGED nonPipeVars
    /\ UNCHANGED <<received, applied>>
    /\ main = "running" /\ fpc = "loop"
    /\ LET r == QueryStateUpdate(chain, l1_head, eth_from_height, starknet_start_height)
       IN /\ r.kind = "Ok"
          /\ \E logs \in Orderings(r.updates) :
              LET res == StateDiff(logs, missing_fact)
                  states == res.value
                  sorted == SortStates(states)
                  last == LastOf(sorted)
              IN /\ res.kind = "Ok"
                 /\ IF states = <<>>
                    THEN /\ eth_from_height' = eth_from_height + 10
                         /\ fpc' = "loop"
                         /\ UNCHANGED <<starknet_start_height, chan, lastSent, lastSentFrom, sent>>
                    ELSE /\ eth_from_height' = last.l1_l2_block_mapping.l1_block_number + 1
                         /\ starknet_start_height' = last.l1_l2_block_mapping.l2_block_number + 1
                         /\ chan' = Send(chan, sorted)
                         /\ sent' = Append(sent, sorted)
                         /\ lastSent' = sorted
                         /\ lastSentFrom' = starknet_start_height
                         /\ fpc' = "sleep"
    /\ highest_eth_block_number' = l1_head
    /\ sync_status' = StatusFor(eth_from_height, l1_head)
    /\ fetch_res' = "Ok"
    /\ UNCHANGED <<envVars, persisted, main, writerVars, restarts, appliedOk, applyCalls,
                   countVars, cursorBy>>

\* one iteration in which every RPC succeeds and query_state_diff fails for an
\* update of the window (its fact log is absent): state_diff returns the error,
\* the Err arm logs it and the iteration ends with the sleep
FetchMissingFact ==
    /\ UNCHANGED nonPipeVars
    /\ UNCHANGED historyVars
    /\ main = "running" /\ fpc = "loop"
    /\ LET r == QueryStateUpdate(chain, l1_head, eth_from_height, starknet_start_height)
       IN /\ r.kind = "Ok"
          /\ \E logs \in Orderings(r.updates) :
              LET res == StateDiff(logs, missing_fact)
              IN /\ res.kind = "Err"
                 /\ fetch_res' = res.err
    /\ highest_eth_block_number' = l1_head
    /\ sync_status' = StatusFor(eth_from_height, l1_head)
    /\ fpc' = "sleep"
    /\ UNCHANGED <<envVars, persisted, main, eth_from_height, starknet_start_height, chan,
                   writerVars, restarts, appliedOk, applyCalls, countVars, cursorBy, lastSent,
                   lastSentFrom>>

\* an Err arm that gives the range up: the cursor moves on past it
FetchErrSkipsRange ==
    /\ UNCHANGED nonPipeVars
    /\ UNCHANGED historyVars
    /\ main = "running" /\ fpc = "loop"
    /\ highest_eth_block_number' = -1
    /\ sync_status' = sync_status
    /\ fetch_res' = "L1Connection"
    /\ eth_from_height' = eth_from_height + STATE_SEARCH_STEP
    /\ fpc' = "sleep"
    /\ UNCHANGED <<envVars, persisted, main, starknet_start_height, chan,
                   writerVars, restarts, appliedOk, applyCalls, countVars, cursorBy, lastSent,
                   lastSentFrom>>

\* one iteration in which state_diff returns an error for another reason:
\* get_block_number failed (before the status is stored), or a later RPC,
\* the reconstruction or the decoding of an update did
FetchErr ==
    /\ UNCHANGED nonPipeVars
    /\ UNCHANGED historyVars
    /\ main = "running" /\ fpc = "loop"
    /\ \/ /\ highest_eth_block_number' = -1
          /\ sync_status' = sync_status
          /\ fetch_res' = "L1Connection"
       \/ /\ highest_eth_block_number' = l1_head
          /\ sync_status' = StatusFor(eth_from_height, l1_head)
          /\ \E e \in OtherErrors : fetch_res' = e
    /\ fpc' = "sleep"
    /\ UNCHANGED <<envVars, persisted, main, eth_from_height, starknet_start_height, chan,
                   writerVars, restarts, appliedOk, applyCalls, countVars, cursorBy, lastSent,
                   lastSentFrom>>

\* no window holds an update at or above the cursor: query_state_update keeps
\* moving its window and state_diff does not return
FetchScanning ==
    /\ UNCHANGED nonPipeVars
    /\ UNCHANGED historyVars
    /\ main = "running" /\ fpc = "loop"
    /\ QueryStateUpdate(chain, l1_head, eth_from_height, starknet_start_height).kind = "scanning"
    /\ highest_eth_block_number' = l1_head
    /\ sync_status' = StatusFor(eth_from_height, l1_head)
    /\ fpc' = "scanning"
    /\ UNCHANGED <<envVars, persisted, main, eth_from_height, starknet_start_height, chan,
                   writerVars, restarts, appliedOk, applyCalls, countVars, cursorBy, lastSent,
                   lastSentFrom, fetch_res>>

\* tokio::time::sleep(5s) at the end of an iteration
FetcherSleep ==
    /\ UNCHANGED nonPipeVars
    /\ UNCHANGED historyVars
    /\ main = "running" /\ fpc = "sleep"
    /\ fpc' = "loop"
    /\ UNCHANGED <<envVars, persisted, main, eth_from_height, starknet_start_height,
                   highest_eth_block_number, chan, writerVars, sync_status, restarts, appliedOk, applyCalls, countVars, cursorBy,
                   lastSent, lastSentFrom, fetch_res>>

\* state_write_task: rx.next() yields a batch
WriterRecv ==
    /\ UNCHANGED nonPipeVars
    /\ main = "running" /\ wpc = "recv"
    /\ chan /= <<>>
    /\ received' = Append(received, Head(chan))
    /\ UNCHANGED <<sent, applied>>
    /\ fetched_states' = Head(chan)
    /\ chan' = Tail(chan)
    /\ widx' = 1
    /\ applyCalls' = <<>>
    /\ nBatches' = nBatches + 1
    /\ wpc' = AfterApply(1, Head(chan))
    /\ UNCHANGED <<envVars, persisted, main, fetcherVars, sync_status, restarts, appliedOk,
                   nApplyOk, nCursorWrites, cursorBy, lastSent, lastSentFrom, fetch_res>>

\* state_write_task: one apply_state_diff call of the for loop; its Result is dropped
WriterApply ==
    /\ UNCHANGED nonPipeVars
    /\ main = "running" /\ wpc = "apply"
    /\ applied' = Append(applied, fetched_states[widx].l1_l2_block_mapping.l2_block_number)
    /\ UNCHANGED <<sent, received>>
    /\ LET state == fetched_states[widx]
           l2 == state.l1_l2_block_mapping.l2_block_number
       IN /\ applyCalls' = Append(applyCalls, l2)
          /\ \E ok \in BOOLEAN :
              /\ appliedOk' = IF ok THEN appliedOk \cup {l2} ELSE appliedOk
              /\ nApplyOk' = IF ok THEN nApplyOk + 1 ELSE nApplyOk
    /\ widx' = widx + 1
    /\ wpc' = AfterApply(widx + 1, fetched_states)
    /\ UNCHANGED <<envVars, persisted, main, fetcherVars, chan, fetched_states, sync_status,
                   restarts, nCursorWrites, nBatches, cursorBy, lastSent, lastSentFrom, fetch_res>>

\* a writer that logs a failed cursor write and waits for the next batch
WriterPersistContinues ==
    /\ UNCHANGED nonPipeVars
    /\ UNCHANGED historyVars
    /\ main = "running" /\ wpc = "persist"
    /\ wpc' = "recv"
    /\ UNCHANGED <<envVars, persisted, main, nCursorWrites, cursorBy, fetcherVars, chan,
                   fetched_states, widx, sync_status, restarts, appliedOk, applyCalls, nApplyOk,
                   nBatches, lastSent, lastSentFrom, fetch_res>>

\* state_write_task: write the mapping of the batch's last element; a write
\* error breaks the loop, the task ends and select ends the pipeline
WriterPersist ==
    /\ UNCHANGED nonPipeVars
    /\ UNCHANGED historyVars
    /\ main = "running" /\ wpc = "persist"
    /\ LET last == LastOf(fetched_states)
       IN IF last = None
          THEN /\ wpc' = "recv"
               /\ UNCHANGED <<persisted, main, nCursorWrites, cursorBy>>
          ELSE \E ok \in BOOLEAN :
                IF ok
                THEN /\ persisted' = last.l1_l2_block_mapping
                     /\ nCursorWrites' = nCursorWrites + 1
                     /\ cursorBy' = "writer"
                     /\ wpc' = "recv"
                     /\ main' = main
                ELSE /\ main' = "stopped"
                     /\ wpc' = "done"
                     /\ UNCHANGED <<persisted, nCursorWrites, cursorBy>>
    /\ UNCHANGED <<envVars, fetcherVars, chan, fetched_states, widx, sync_status, restarts,
                   appliedOk, applyCalls, nApplyOk, nBatches, lastSent, lastSentFrom, fetch_res>>

\* the node is stopped (or its pipeline has ended) and started again on the
\* same database with the same configuration: the tasks, their locals and the
\* channel are gone, the META column and the applied state stay
Restart ==
    /\ UNCHANGED nonPipeVars
    /\ sent' = <<>>
    /\ received' = <<>>
    /\ applied' = <<>>
    /\ main \in {"running", "stopped"}
    /\ restarts < MaxRestarts
    /\ restarts' = restarts + 1
    /\ main' = "boot"
    /\ fpc' = "init"
    /\ eth_from_height' = 0
    /\ starknet_start_height' = 0
    /\ highest_eth_block_number' = -1
    /\ chan' = <<>>
    /\ wpc' = "recv"
    /\ fetched_states' = <<>>
    /\ widx' = 1
    /\ applyCalls' = <<>>
    /\ nApplyOk' = 0
    /\ nCursorWrites' = 0
    /\ nBatches' = 0
    /\ lastSent' = <<>>
    /\ lastSentFrom' = 0
    /\ fetch_res' = ""
    /\ UNCHANGED <<envVars, persisted, sync_status, appliedOk, cursorBy>>

Next ==
    \/ CreateAndRun
    \/ FetcherInit
    \/ FetchOk
    \/ FetchMissingFact
    \/ FetchErr
    \/ FetchScanning
    \/ FetcherSleep
    \/ WriterRecv
    \/ WriterApply
    \/ WriterPersist
    \/ Restart

Init == InitPipeline /\ DiffIdle /\ RetryIdle /\ ParseIdle /\ DaIdle /\ DbIdle /\ TasksIdle

Spec == Init /\ [][Next]_vars

(***************************************************************************)
(* ethereum.rs: query_state_diff for one state update, and the queries it  *)
(* makes.  The L1 logs are what the provider returns: the response of a    *)
(* single get_logs is chosen when the query is made, the logs a backward   *)
(* scan walks over are chosen when the scan starts.                        *)
(***************************************************************************)
\* L1 heights of the state update: one, two and three backward windows
UpdateHeights == {700, 1500, 2300}

\* configured heights of the 0.11 diff format: above, at and below an update height
FormatHeights == {1500, 2000}

\* configured constructor_args_diff_height: at and above an update height
ConstructorArgsHeights == {1500, 2000}

\* L1 heights of LogMemoryPageFactContinuous logs; 500 and 1300 are the shared
\* bound of two windows of the scans from 1500 and 2300
PageBlocks == {200, 500, 1300, 2300}

\* LogMemoryPageFactContinuous logs on L1 and page hashes in a LogMemoryPagesHashes
NumPages == 3
\* logs in the response to the get_logs of query_state_transition_fact
MaxFactLogs == 2

\* the transition facts: that of the update's transaction and another one
Facts == {1, 2}
TxIndexes == {0, 1}

\* a Log of LogStateTransitionFact: its transaction_index, the fact in its data
\* and whether decoding its data fails
FactLog == [transaction_index : TxIndexes, fact : Facts, decode_fails : BOOLEAN]

FactResponses == UNION {[1..n -> FactLog] : n \in 0..MaxFactLogs}

\* the transaction that registered page i, and the values in its calldata
TxHashOf(i) == 100 + i
PageValues(i) == [k \in 1..(1 + (i % 2)) |-> (10 * i) + k]

\* calldata of registerContinuousMemoryPage(startAddr, values, z, alpha, prime)
TxInput(tx_hash) == <<0, PageValues(tx_hash - 100), 7, 8, 9>>

\* abi.decode("registerContinuousMemoryPage", input): the tuple, of which
\* query_and_decode_transaction returns the second field
DecodeValues(input) == input[2]

\* page hash lists of a LogMemoryPagesHashes event: the hashes of registered
\* pages (1..NumPages, numbered in the order of registration) and of one page
\* no log registers (0), in any order
PageLists ==
    UNION {{l \in [1..n -> 0..NumPages] : \A i, j \in 1..n : l[i] = l[j] => i = j} : n \in 0..NumPages}

\* the LogMemoryPageFactContinuous logs below an update at height e, in chain order
PageLogSets(e) ==
    {[i \in 1..NumPages |-> [block |-> bs[i], memory_hash |-> i, tx_hash |-> TxHashOf(i)]] :
        bs \in NonDecreasing({b \in PageBlocks : b <= e}, NumPages)}

\* a log the filter of query_memory_pages_hashes returns: its block, whether
\* decode_log fails on it and, when it does not, the decoded LogMemoryPagesHashes
VerifierLog(block, state_transition_fact, pages_hashes) ==
    [block |-> block, decode_fails |-> FALSE, fact |-> state_transition_fact,
     pages_hashes |-> pages_hashes]

\* a log of the verifier on which decode_log fails
UndecodableLog(block) ==
    [block |-> block, decode_fails |-> TRUE, fact |-> 0, pages_hashes |-> <<>>]

\* the LogMemoryPagesHashes logs of the verifier below an update at height e:
\* one of another fact and at most one of the update's fact, or an undecodable
\* log in the update's block above an older one of the update's fact
VerifierLogSets(e) ==
    {<<VerifierLog(e, 2, <<0>>)>>}
    \cup {<<VerifierLog(e, 2, <<0>>), VerifierLog(e, 1, l)>> : l \in PageLists}
    \cup {<<VerifierLog(200, 1, l), VerifierLog(e, 2, <<0>>)>> : l \in PageLists}
    \cup {<<VerifierLog(200, 1, l), UndecodableLog(e)>> : l \in PageLists}

\* query_state_transition_fact on the logs of the update's block: find the first
\* log of the transaction, then decode it
QueryStateTransitionFact(logs, tx_index) ==
    LET found == SelectSeq(logs, LAMBDA log : log.transaction_index = tx_index)
    IN IF found = <<>> THEN Err("L1StateError")
       ELSE IF Head(found).decode_fails THEN Err("L1EventDecode")
       ELSE Ok(Head(found).fact)

InWindow(log, from, to) == from <= log.block /\ log.block <= to

RECURSIVE PagesHashesScan(_, _, _, _)
\* the loop of query_memory_pages_hashes
PagesHashesScan(logs, from, to, state_transition_fact) ==
    IF to = 0 THEN Err("Other")
    ELSE LET found == SelectSeq(logs, LAMBDA log : /\ InWindow(log, from, to)
                                                   /\ ~log.decode_fails
                                                   /\ log.fact = state_transition_fact)
         IN IF found /= <<>> THEN Ok(Head(found).pages_hashes)
            ELSE PagesHashesScan(logs, SaturatingSub(from, LOG_SEARCH_STEP),
                                 SaturatingSub(to, LOG_SEARCH_STEP), state_transition_fact)

\* query_memory_pages_hashes
QueryMemoryPagesHashes(logs, eth_from, state_transition_fact) ==
    PagesHashesScan(logs, SaturatingSub(eth_from, LOG_SEARCH_STEP), eth_from, state_transition_fact)

RECURSIVE MatchWindow(_, _, _)
\* the for loop over one window's logs: a log whose memory_hash is pending is
\* pushed and its hash retained out of pages_hashes
MatchWindow(logs, pages_hashes, memory_pages_hashes) ==
    IF logs = <<>> THEN [pending |-> pages_hashes, matched |-> memory_pages_hashes]
    ELSE LET l == Head(logs)
             retained == SelectSeq(pages_hashes, LAMBDA elem : elem /= l.memory_hash)
         IN MatchWindow(Tail(logs), retained,
                        IF Len(retained) /= Len(pages_hashes)
                        THEN Append(memory_pages_hashes, l) ELSE memory_pages_hashes)

\* the stack of per-window matches left as pushed
StackAsPushed(match_pages_hashes) == match_pages_hashes

\* match_pages_hashes.reverse(): the windows were walked from the newest
Chronological(match_pages_hashes) == Reverse(match_pages_hashes)

RECURSIVE ContinuousScanStopsEarly(_, _, _, _, _)
\* the loop giving up when the lower bound is 0, the last window left unread
ContinuousScanStopsEarly(logs, from, to, pages_hashes, match_pages_hashes) ==
    IF from = 0 THEN Err("Other")
    ELSE LET window == SelectSeq(logs, LAMBDA log : InWindow(log, from, to))
             m == MatchWindow(window, pages_hashes, <<>>)
             stack == Append(match_pages_hashes, m.matched)
         IN IF m.pending = <<>> THEN Ok(Flatten(Chronological(stack)))
            ELSE ContinuousScanStopsEarly(logs, SaturatingSub(from, LOG_SEARCH_STEP),
                                          SaturatingSub(to, LOG_SEARCH_STEP), m.pending, stack)

RECURSIVE ContinuousScan(_, _, _, _, _)
\* the loop of query_memory_page_fact_continuous_logs
ContinuousScan(logs, from, to, pages_hashes, match_pages_hashes) ==
    IF to = 0 THEN Err("Other")
    ELSE LET window == SelectSeq(logs, LAMBDA log : InWindow(log, from, to))
             m == MatchWindow(window, pages_hashes, <<>>)
             stack == Append(match_pages_hashes, m.matched)
         IN IF m.pending = <<>> THEN Ok(Flatten(Chronological(stack)))
            ELSE ContinuousScan(logs, SaturatingSub(from, LOG_SEARCH_STEP),
                                SaturatingSub(to, LOG_SEARCH_STEP), m.pending, stack)

\* query_memory_page_fact_continuous_logs
QueryMemoryPageFactContinuousLogs(logs, eth_from, pages_hashes) ==
    ContinuousScan(logs, SaturatingSub(eth_from, LOG_SEARCH_STEP), eth_from, pages_hashes, <<>>)

\* every reassembled page taken as content
ContentPagesAll(logs) == logs

\* &continuous_logs_with_tx_hash[1..]: the pages whose calldata is concatenated
ContentPages(logs) == SubSeq(logs, 2, Len(logs))

\* the height comparison with the boundary on the other side
UsesPre011Inclusive(l1_block_number, height) == l1_block_number <= height

\* decode_state_diff: the pre-0.11 decoder is used below v011_diff_format_height
UsesPre011(l1_block_number, height) == l1_block_number < height

\* the pipeline is not running
PipelineIdle ==
    /\ sent = <<>>
    /\ received = <<>>
    /\ applied = <<>>
    /\ chain = <<>>
    /\ missing_fact = {}
    /\ l1_head = 0
    /\ config = [l1_start |-> 0, l2_start |-> 0]
    /\ persisted = None
    /\ main = "idle"
    /\ fpc = "init"
    /\ eth_from_height = 0
    /\ starknet_start_height = 0
    /\ highest_eth_block_number = -1
    /\ chan = <<>>
    /\ wpc = "recv"
    /\ fetched_states = <<>>
    /\ widx = 1
    /\ sync_status = "SYNCING"
    /\ restarts = 0
    /\ appliedOk = {}
    /\ applyCalls = <<>>
    /\ nApplyOk = 0
    /\ nCursorWrites = 0
    /\ nBatches = 0
    /\ cursorBy = "none"
    /\ lastSent = <<>>
    /\ lastSentFrom = 0
    /\ fetch_res = ""

InitDiff ==
    /\ PipelineIdle
    /\ RetryIdle
    /\ ParseIdle
    /\ DaIdle
    /\ DbIdle
    /\ TasksIdle
    /\ dpc = "fact"
    /\ update_l1 \in UpdateHeights
    /\ v011_diff_format_height \in FormatHeights
    /\ fact_logs = <<>>
    /\ fact = 0
    /\ pages_list = <<>>
    /\ page_logs = <<>>
    /\ continuous_logs = <<>>
    /\ tx_idx = 0
    /\ tx_input_data = <<>>
    /\ derr = ""
    /\ decoders = {}
    /\ constructor_args_diff_height \in ConstructorArgsHeights
    /\ pre_011_flags = {}

\* query_state_diff returns the error e
DiffFails(e) ==
    /\ dpc' = "err"
    /\ derr' = e

\* query_state_diff: query_state_transition_fact(block_number, transaction_index)
\* for the update, whose transaction index is 0
DiffQueryFact ==
    /\ dpc = "fact"
    /\ \/ /\ DiffFails("L1Connection")
          /\ UNCHANGED <<fact_logs, fact>>
       \/ \E logs \in FactResponses :
            LET r == QueryStateTransitionFact(logs, 0)
            IN /\ fact_logs' = logs
               /\ IF r.kind = "Ok"
                  THEN /\ fact' = r.value
                       /\ dpc' = "pages"
                       /\ derr' = derr
                  ELSE /\ DiffFails(r.err)
                       /\ fact' = fact
    /\ UNCHANGED <<update_l1, v011_diff_format_height, pages_list, page_logs, continuous_logs,
                   tx_idx, tx_input_data, decoders,
                   constructor_args_diff_height, pre_011_flags>>
    /\ UNCHANGED nonDiffVars

\* query_state_diff: query_memory_pages_hashes, then the conversion of the
\* hashes to U256
DiffQueryPagesHashes ==
    /\ dpc = "pages"
    /\ fact_logs' = <<>>
    /\ \/ /\ DiffFails("L1Connection")
          /\ UNCHANGED pages_list
       \/ \E logs \in VerifierLogSets(update_l1) :
            LET r == QueryMemoryPagesHashes(logs, update_l1, fact)
            IN IF r.kind = "Ok"
               THEN /\ pages_list' = r.value
                    /\ dpc' = "cont"
                    /\ derr' = derr
               ELSE /\ DiffFails(r.err)
                    /\ pages_list' = pages_list
    /\ UNCHANGED <<update_l1, v011_diff_format_height, fact, page_logs, continuous_logs,
                   tx_idx, tx_input_data, decoders,
                   constructor_args_diff_height, pre_011_flags>>
    /\ UNCHANGED nonDiffVars

\* query_state_diff: query_memory_page_fact_continuous_logs, then the slice
\* [1..] of its result, which panics on an empty result
DiffQueryContinuous ==
    /\ dpc = "cont"
    /\ \/ /\ DiffFails("L1Connection")
          /\ UNCHANGED <<page_logs, continuous_logs, tx_idx>>
       \/ \E logs \in PageLogSets(update_l1) :
            LET r == QueryMemoryPageFactContinuousLogs(logs, update_l1, pages_list)
            IN /\ page_logs' = logs
               /\ IF r.kind = "Ok"
                  THEN /\ continuous_logs' = r.value
                       /\ tx_idx' = 1
                       /\ dpc' = IF r.value = <<>> THEN "panic"
                                 ELSE IF ContentPages(r.value) = <<>> THEN "decode" ELSE "tx"
                       /\ derr' = derr
                  ELSE /\ DiffFails(r.err)
                       /\ UNCHANGED <<continuous_logs, tx_idx>>
    /\ UNCHANGED <<update_l1, v011_diff_format_height, fact_logs, fact, pages_list,
                   tx_input_data, decoders,
                   constructor_args_diff_height, pre_011_flags>>
    /\ UNCHANGED nonDiffVars

\* query_state_diff: one iteration of the for loop, query_and_decode_transaction
\* of the page's transaction: get_transaction fails, finds nothing, or returns a
\* transaction whose input decodes (unwrap panics when it does not)
DiffDecodeTransaction ==
    /\ dpc = "tx"
    /\ LET pages == ContentPages(continuous_logs)
           log == pages[tx_idx]
       IN \/ /\ DiffFails("L1Connection")
             /\ UNCHANGED <<tx_idx, tx_input_data>>
          \/ /\ DiffFails("Other")
             /\ UNCHANGED <<tx_idx, tx_input_data>>
          \/ /\ dpc' = "panic"
             /\ UNCHANGED <<tx_idx, tx_input_data, derr>>
          \/ /\ tx_input_data' = tx_input_data \o DecodeValues(TxInput(log.tx_hash))
             /\ tx_idx' = tx_idx + 1
             /\ dpc' = IF tx_idx + 1 > Len(pages) THEN "decode" ELSE "tx"
             /\ derr' = derr
    /\ UNCHANGED <<update_l1, v011_diff_format_height, fact_logs, fact, pages_list, page_logs,
                   continuous_logs, decoders,
                   constructor_args_diff_height, pre_011_flags>>
    /\ UNCHANGED nonDiffVars

\* decode_state_diff: parser::decode_pre_011_diff(&data, false); the
\* constructor_args_diff_height of the configuration is not kept by the fetcher
WithConstructorArgsPassed == FALSE

\* query_state_diff: decode_state_diff.  Below the format height the pre-0.11
\* decoder runs; otherwise the parent block hash is looked up, which may fail
\* with UnknownBlock, and then the 0.11 decoder runs.  Either decoder returns a
\* StateDiff or an error.
DiffDecode ==
    /\ dpc = "decode"
    /\ IF UsesPre011(update_l1, v011_diff_format_height)
       THEN /\ decoders' = decoders \cup {"decode_pre_011_diff"}
            /\ pre_011_flags' = pre_011_flags \cup {WithConstructorArgsPassed}
            /\ \/ dpc' = "done" /\ derr' = derr
               \/ DiffFails("TypeError")
       ELSE \/ /\ DiffFails("UnknownBlock")
               /\ UNCHANGED <<decoders, pre_011_flags>>
            \/ /\ decoders' = decoders \cup {"decode_011_diff"}
               /\ pre_011_flags' = pre_011_flags
               /\ \/ dpc' = "done" /\ derr' = derr
                  \/ DiffFails("TypeError")
    /\ UNCHANGED <<update_l1, v011_diff_format_height, fact_logs, fact, pages_list, page_logs,
                   continuous_logs, tx_idx, tx_input_data,
                   constructor_args_diff_height>>
    /\ UNCHANGED nonDiffVars

NextDiff ==
    \/ DiffQueryFact
    \/ DiffQueryPagesHashes
    \/ DiffQueryContinuous
    \/ DiffDecodeTransaction
    \/ DiffDecode

SpecDiff == InitDiff /\ [][NextDiff]_vars

(***************************************************************************)
(* ethereum.rs: get_logs_retry and calculate_backoff.  One fetcher makes   *)
(* one call after the other; the configured URLs parse, endpoint i fails   *)
(* every get_logs when i is in down.  http_provider is the provider of     *)
(* eth_urls[0] built by new; current_provider_index is kept between calls. *)
(***************************************************************************)
\* URLs in the configured list, at most
MaxUrls == 5
\* get_logs_retry calls after the first one
MaxCalls == 1
\* largest argument of a direct calculate_backoff call
MaxRetryArg == 40

\* exponential_factor.powf(n as f64) cast to u64, as far as min(max_delay) sees it: the
\* power is exact, the cast saturates, and every power from 2^30 on is above
\* max_delay like 2^30 is, so 2^30 stands for them
PowfAsU64(n) == IF n < 30 THEN 2 ^ n ELSE 2 ^ 30

\* a backoff without the maximum delay
CalculateBackoffUncapped(n) == PowfAsU64(n)

\* calculate_backoff(n): base_delay 1.0, exponential_factor 2.0, max_delay 10
CalculateBackoff(n) ==
    LET backoff_ == 1 * PowfAsU64(n)
    IN IF backoff_ < 10 THEN backoff_ ELSE 10

\* an index that is not moved to the next URL
SameProviderIndex(index, len) == index

\* *index = (*index + 1) % self.eth_url_list.len()
NextProviderIndex(index, len) == (index + 1) % len

InitRetry ==
    /\ PipelineIdle
    /\ DiffIdle
    /\ ParseIdle
    /\ DaIdle
    /\ DbIdle
    /\ TasksIdle
    /\ rpc = "call"
    /\ eth_url_list \in 1..MaxUrls
    /\ down \in SUBSET (0..(eth_url_list - 1))
    /\ current_provider_index = 0
    /\ retries = 0
    /\ attempts = <<>>
    /\ sleeps = <<>>
    /\ rotations = 0
    /\ calls = 0
    /\ backoff_of = 0
    /\ backoff = 0

\* get_logs_retry: the first get_logs, on self.http_provider
GetLogsFirst ==
    /\ rpc = "call"
    /\ attempts' = Append(attempts, 0)
    /\ retries' = 0
    /\ rpc' = IF 0 \in down THEN "loop" ELSE "ok"
    /\ UNCHANGED <<eth_url_list, down, current_provider_index, sleeps, rotations, calls,
                   backoff_of, backoff>>
    /\ UNCHANGED nonRetryVars

\* get_logs_retry: one iteration of the loop up to its sleep
GetLogsRetry ==
    /\ rpc = "loop"
    /\ attempts' = Append(attempts, current_provider_index)
    /\ IF current_provider_index \notin down
       THEN /\ rpc' = "ok"
            /\ UNCHANGED <<retries, current_provider_index, rotations, sleeps>>
       ELSE /\ retries' = retries + 1
            /\ IF retries + 1 > eth_url_list
               THEN /\ rpc' = "failed"
                    /\ UNCHANGED <<current_provider_index, rotations, sleeps>>
               ELSE /\ current_provider_index' =
                          NextProviderIndex(current_provider_index, eth_url_list)
                    /\ rotations' = rotations + 1
                    /\ sleeps' = Append(sleeps, CalculateBackoff(retries + 1))
                    /\ rpc' = "sleep"
    /\ UNCHANGED <<eth_url_list, down, calls, backoff_of, backoff>>
    /\ UNCHANGED nonRetryVars

\* get_logs_retry: sleep(wait_time) is over
GetLogsSleep ==
    /\ rpc = "sleep"
    /\ rpc' = "loop"
    /\ UNCHANGED <<eth_url_list, down, current_provider_index, retries, attempts, sleeps,
                   rotations, calls, backoff_of, backoff>>
    /\ UNCHANGED nonRetryVars

\* query_state_update: self.http_provider.get_block_number() with its map_err
\* to L1Connection and `?`
GetBlockNumber ==
    /\ rpc = "call"
    /\ attempts' = Append(attempts, 0)
    /\ retries' = 0
    /\ rpc' = IF 0 \in down THEN "block_number_failed" ELSE "block_number_ok"
    /\ UNCHANGED <<eth_url_list, down, current_provider_index, sleeps, rotations, calls,
                   backoff_of, backoff>>
    /\ UNCHANGED nonRetryVars

\* query_and_decode_transaction: self.http_provider.get_transaction(hash) with
\* its map_err to L1Connection and `?`
GetTransaction ==
    /\ rpc = "call"
    /\ attempts' = Append(attempts, 0)
    /\ retries' = 0
    /\ rpc' = IF 0 \in down THEN "transaction_failed" ELSE "transaction_ok"
    /\ UNCHANGED <<eth_url_list, down, current_provider_index, sleeps, rotations, calls,
                   backoff_of, backoff>>
    /\ UNCHANGED nonRetryVars

\* an RPC of the fetcher has returned
RpcReturned ==
    rpc \in {"ok", "failed", "block_number_ok", "block_number_failed",
             "transaction_ok", "transaction_failed"}

\* the fetcher makes its next RPC
GetLogsNextCall ==
    /\ RpcReturned
    /\ calls < MaxCalls
    /\ calls' = calls + 1
    /\ rpc' = "call"
    /\ retries' = 0
    /\ attempts' = <<>>
    /\ sleeps' = <<>>
    /\ rotations' = 0
    /\ UNCHANGED <<eth_url_list, down, current_provider_index, backoff_of, backoff>>
    /\ UNCHANGED nonRetryVars

\* calculate_backoff called on its own (it is pub)
CallCalculateBackoff ==
    /\ RpcReturned
    /\ \E n \in 0..MaxRetryArg :
        /\ backoff_of' = n
        /\ backoff' = CalculateBackoff(n)
    /\ UNCHANGED <<rpc, eth_url_list, down, current_provider_index, retries, attempts, sleeps,
                   rotations, calls>>
    /\ UNCHANGED nonRetryVars

NextRetry ==
    \/ GetLogsFirst
    \/ GetLogsRetry
    \/ GetLogsSleep
    \/ GetBlockNumber
    \/ GetTransaction
    \/ GetLogsNextCall
    \/ CallCalculateBackoff

SpecRetry == InitRetry /\ [][NextRetry]_vars

(***************************************************************************)
(* ethereum.rs: get_logs_retry called by the tasks state_diff joins.  Each *)
(* task owns a clone of the fetcher: http_provider (the provider of URL 0) *)
(* and retries are its own, current_provider_index is shared.  A task runs *)
(* from one await to the next: the tasks interleave at get_logs and sleep. *)
(***************************************************************************)
InitTasks ==
    /\ PipelineIdle
    /\ DiffIdle
    /\ RetryIdle
    /\ ParseIdle
    /\ DaIdle
    /\ DbIdle
    /\ task_url_list \in 1..MaxTaskUrls
    /\ task_down \in SUBSET (0..(task_url_list - 1))
    /\ shared_provider_index \in 0..(task_url_list - 1)
    /\ task_pc = [t \in Tasks |-> "call"]
    /\ task_provider = [t \in Tasks |-> 0]
    /\ task_retries = [t \in Tasks |-> 0]
    /\ task_attempted = [t \in Tasks |-> {}]

\* get_logs_retry of task t: the first get_logs, on its http_provider, has answered
TaskGetLogsFirst(t) ==
    /\ task_pc[t] = "call"
    /\ task_attempted' = [task_attempted EXCEPT ![t] = @ \cup {0}]
    /\ task_retries' = [task_retries EXCEPT ![t] = 0]
    /\ task_pc' = [task_pc EXCEPT ![t] = IF 0 \in task_down THEN "loop" ELSE "ok"]
    /\ UNCHANGED <<task_url_list, task_down, shared_provider_index, task_provider>>
    /\ UNCHANGED nonTaskVars

\* the loop of task t: the provider of the URL at the shared index is built
\* under the lock and get_logs is sent to it
TaskGetLogsSend(t) ==
    /\ task_pc[t] = "loop"
    /\ task_provider' = [task_provider EXCEPT ![t] = shared_provider_index]
    /\ task_attempted' = [task_attempted EXCEPT ![t] = @ \cup {shared_provider_index}]
    /\ task_pc' = [task_pc EXCEPT ![t] = "inflight"]
    /\ UNCHANGED <<task_url_list, task_down, shared_provider_index, task_retries>>
    /\ UNCHANGED nonTaskVars

\* the loop of task t: get_logs has answered; on Err the task counts the retry,
\* gives up or moves the shared index and sleeps
TaskGetLogsAnswer(t) ==
    /\ task_pc[t] = "inflight"
    /\ IF task_provider[t] \notin task_down
       THEN /\ task_pc' = [task_pc EXCEPT ![t] = "ok"]
            /\ UNCHANGED <<task_retries, shared_provider_index>>
       ELSE /\ task_retries' = [task_retries EXCEPT ![t] = @ + 1]
            /\ IF task_retries[t] + 1 > task_url_list
               THEN /\ task_pc' = [task_pc EXCEPT ![t] = "failed"]
                    /\ UNCHANGED shared_provider_index
               ELSE /\ shared_provider_index' =
                          NextProviderIndex(shared_provider_index, task_url_list)
                    /\ task_pc' = [task_pc EXCEPT ![t] = "sleep"]
    /\ UNCHANGED <<task_url_list, task_down, task_provider, task_attempted>>
    /\ UNCHANGED nonTaskVars

\* the sleep of task t is over
TaskSleep(t) ==
    /\ task_pc[t] = "sleep"
    /\ task_pc' = [task_pc EXCEPT ![t] = "loop"]
    /\ UNCHANGED <<task_url_list, task_down, shared_provider_index, task_provider,
                   task_retries, task_attempted>>
    /\ UNCHANGED nonTaskVars

NextTasks ==
    \/ \E t \in Tasks : TaskGetLogsFirst(t)
    \/ \E t \in Tasks : TaskGetLogsSend(t)
    \/ \E t \in Tasks : TaskGetLogsAnswer(t)
    \/ \E t \in Tasks : TaskSleep(t)

SpecTasks == InitTasks /\ [][NextTasks]_vars

(***************************************************************************)
(* parse_da.rs: decode_011_diff and decode_pre_011_diff.  A U256 is held   *)
(* as its 16 limbs of 16 bits, least significant first; an IndexMap is the *)
(* sequence of its <<key, value>> entries in insertion order.              *)
(***************************************************************************)
NUM_STORAGE_UPDATES_WIDTH == 64
LimbBits == 16
NumLimbs == 16
LimbBase == 2 ^ LimbBits

ZeroCell == [i \in 1..NumLimbs |-> 0]

\* U256::from(n) for n < 2^16
U256From(n) == [ZeroCell EXCEPT ![1] = n]

\* the Stark prime 2^251 + 17 * 2^192 + 1
StarkPrime == [ZeroCell EXCEPT ![1] = 1, ![13] = 17, ![16] = 2048]

\* a < b on U256
U256Less(a, b) ==
    \E i \in 1..NumLimbs : a[i] < b[i] /\ \A j \in (i + 1)..NumLimbs : a[j] = b[j]

\* Felt252Wrapper::try_from(U256) is Ok: the value is below the prime
IsFelt252(c) == U256Less(c, StarkPrime)

\* StarkFelt::new(bytes) is Ok: the most significant nibble is 0 (below 2^252)
IsStarkFelt(c) == c[NumLimbs] < 4096

\* ContractAddress::try_from and StorageKey::try_from (PatriciaKey) are Ok on
\* a StarkFelt: the value is below 2^251
IsPatriciaKey(c) == c[NumLimbs] < 2048

\* U256::bit(n)
Bit(c, n) == ((c[(n \div LimbBits) + 1] \div (2 ^ (n % LimbBits))) % 2) = 1

\* c >> NUM_STORAGE_UPDATES_WIDTH
ShiftRightWidth(c) ==
    LET k == NUM_STORAGE_UPDATES_WIDTH \div LimbBits
    IN [i \in 1..NumLimbs |-> IF i + k <= NumLimbs THEN c[i + k] ELSE 0]

\* U256::low_u64 as a count of loop iterations: the low 64 bits, exact below
\* 2^30; a larger count is above the length of every blob and is kept at 2^30
LowU64(c) ==
    IF c[3] = 0 /\ c[4] = 0 /\ c[2] < 2 ^ 14 THEN c[1] + (LimbBase * c[2]) ELSE 2 ^ 30

\* U256::as_usize does not panic: the value fits 64 bits
FitsUsize(c) == \A i \in 5..NumLimbs : c[i] = 0

\* IndexMap::insert: a present key keeps its place and takes the new value
MapInsert(m, k, v) ==
    IF \E i \in 1..Len(m) : m[i][1] = k
    THEN [i \in 1..Len(m) |-> IF m[i][1] = k THEN <<k, v>> ELSE m[i]]
    ELSE Append(m, <<k, v>>)

\* outcomes of a decoder other than Ok
Panic == [kind |-> "panic"]
BoxedError == [kind |-> "Err"]

\* fact_input_sn_output[offset] does not panic
InBounds(data, offset) == offset < Len(data)
\* fact_input_sn_output[offset]
At(data, offset) == data[offset + 1]

\* the cells of the blobs built here: 0, 1, 2, a summary with the class flag,
\* nonce 1 and one storage update (2^128 + 2^64 + 1), and the Stark prime
\* (no felt, no address, no storage key)
FlagNonceOne == [ZeroCell EXCEPT ![1] = 1, ![5] = 1, ![9] = 1]
Cells == {U256From(0), U256From(1), U256From(2), FlagNonceOne, StarkPrime}

\* longest blob built from Cells
MaxBlobLen == 6

\* the vector of tests::test_decode_pre_011_diff_v2
GoldenVector ==
    << <<2, 0, 0, 0, 0, 0, 0, 0, 0, 0, 0, 0, 0, 0, 0, 0>>,
      <<9210, 46433, 2718, 64549, 42435, 15489, 3554, 22491, 34315, 7333, 12421, 39150, 35896, 58339, 41552, 1399>>,
      <<493, 47490, 40797, 46806, 50527, 47240, 3894, 6077, 29919, 41590, 22127, 55677, 4011, 56301, 11390, 756>>,
      <<5, 0, 0, 0, 0, 0, 0, 0, 0, 0, 0, 0, 0, 0, 0, 0>>,
      <<28219, 20338, 20059, 60476, 43137, 2438, 52560, 53937, 11136, 38700, 64353, 39108, 59940, 31875, 53154, 1142>>,
      <<1, 0, 0, 0, 1, 0, 0, 0, 0, 0, 0, 0, 0, 0, 0, 0>>,
      <<5, 0, 0, 0, 0, 0, 0, 0, 0, 0, 0, 0, 0, 0, 0, 0>>,
      <<102, 0, 0, 0, 0, 0, 0, 0, 0, 0, 0, 0, 0, 0, 0, 0>>,
      <<12298, 45040, 28145, 55962, 4298, 39661, 29015, 479, 49464, 59898, 1027, 42605, 34226, 22306, 57226, 1194>>,
      <<2, 0, 0, 0, 0, 0, 0, 0, 0, 0, 0, 0, 0, 0, 0, 0>>,
      <<49250, 62514, 44655, 63082, 19238, 52229, 50826, 47229, 53596, 63679, 55702, 45657, 65203, 31453, 39965, 350>>,
      <<6595, 11636, 64154, 4195, 45858, 45870, 62174, 13325, 37365, 10911, 37147, 11731, 35381, 18838, 58134, 832>>,
      <<49251, 62514, 44655, 63082, 19238, 52229, 50826, 47229, 53596, 63679, 55702, 45657, 65203, 31453, 39965, 350>>,
      <<24554, 50177, 53130, 34227, 59799, 38585, 53478, 5358, 2871, 44537, 9861, 63614, 61951, 33520, 15828, 306>>,
      <<9210, 46433, 2718, 64549, 42435, 15489, 3554, 22491, 34315, 7333, 12421, 39150, 35896, 58339, 41552, 1399>>,
      <<1, 0, 0, 0, 0, 0, 0, 0, 0, 0, 0, 0, 0, 0, 0, 0>>,
      <<32916, 34916, 53362, 12586, 53699, 26463, 19569, 61922, 14396, 20348, 714, 3001, 47922, 166, 60321, 540>>,
      <<23168, 26879, 49777, 28304, 3630, 19830, 20168, 5425, 23181, 30212, 59983, 40538, 28377, 50908, 37957, 1380>>,
      <<25022, 41007, 46628, 1337, 9690, 22456, 42251, 10234, 27253, 152, 5071, 12725, 5656, 48496, 60697, 1940>>,
      <<1, 0, 0, 0, 0, 0, 0, 0, 0, 0, 0, 0, 0, 0, 0, 0>>,
      <<5, 0, 0, 0, 0, 0, 0, 0, 0, 0, 0, 0, 0, 0, 0, 0>>,
      <<1110, 0, 0, 0, 0, 0, 0, 0, 0, 0, 0, 0, 0, 0, 0, 0>>,
      <<39753, 29786, 10132, 38960, 51101, 46177, 36995, 20381, 48201, 23139, 50800, 12435, 15867, 38174, 27845, 1967>>,
      <<6, 0, 0, 0, 0, 0, 0, 0, 0, 0, 0, 0, 0, 0, 0, 0>>,
      <<42816, 34858, 40234, 30958, 19493, 38918, 9922, 51289, 10353, 53963, 16616, 39614, 37129, 21282, 50373, 33>>,
      <<600, 0, 0, 0, 0, 0, 0, 0, 0, 0, 0, 0, 0, 0, 0, 0>>,
      <<16629, 2186, 59936, 15405, 13148, 26515, 59527, 31975, 34085, 16585, 43614, 61530, 6521, 28607, 14485, 125>>,
      <<400, 0, 0, 0, 0, 0, 0, 0, 0, 0, 0, 0, 0, 0, 0, 0>>,
      <<6686, 13234, 57759, 60135, 36975, 6664, 9140, 32161, 38436, 49471, 55306, 414, 22306, 43293, 2989, 316>>,
      <<100, 0, 0, 0, 0, 0, 0, 0, 0, 0, 0, 0, 0, 0, 0, 0>>,
      <<6687, 13234, 57759, 60135, 36975, 6664, 9140, 32161, 38436, 49471, 55306, 414, 22306, 43293, 2989, 316>>,
      <<200, 0, 0, 0, 0, 0, 0, 0, 0, 0, 0, 0, 0, 0, 0, 0>>,
      <<6688, 13234, 57759, 60135, 36975, 6664, 9140, 32161, 38436, 49471, 55306, 414, 22306, 43293, 2989, 316>>,
      <<300, 0, 0, 0, 0, 0, 0, 0, 0, 0, 0, 0, 0, 0, 0, 0>>,
      <<10150, 49296, 63164, 61041, 3196, 59511, 30569, 39505, 14175, 41721, 21888, 10962, 38463, 47257, 47369, 764>>,
      <<500, 0, 0, 0, 0, 0, 0, 0, 0, 0, 0, 0, 0, 0, 0, 0>> >>

\* the vector of tests::test_decode_011_diff
Test011Vector == [i \in 1..13 |-> U256From(1)]

\* the vector of tests::test_decode_pre_011_diff
TestPre011Vector ==
    [i \in 1..17 |-> U256From(IF i = 4 THEN 1 ELSE i)]

\* a 0.11 blob of two contract updates (the first with class flag and one
\* storage pair, the second with two pairs) and two declared classes
Example011Vector ==
    <<U256From(2),
      U256From(7), FlagNonceOne, U256From(9), U256From(3), U256From(4),
      U256From(8), U256From(2), U256From(3), U256From(4), U256From(5), U256From(6),
      U256From(2), U256From(11), U256From(12), U256From(13), U256From(14)>>

\* a pre-0.11 blob with constructor arguments: two deployments (the first
\* with two arguments, the second with none) and two storage updates
ExamplePre011Vector ==
    <<U256From(6),
      U256From(7), U256From(9), U256From(2), U256From(1), U256From(1),
      U256From(8), U256From(10), U256From(0),
      U256From(2),
      U256From(7), FlagNonceOne, U256From(3), U256From(4),
      U256From(8), U256From(0)>>

Blobs ==
    UNION {[1..n -> Cells] : n \in 0..MaxBlobLen}
    \cup {GoldenVector, Test011Vector, TestPre011Vector, Example011Vector, ExamplePre011Vector}

\* StateDiff with every map empty
EmptyStateDiff ==
    [deployed_contracts |-> <<>>, storage_diffs |-> <<>>, declared_classes |-> <<>>,
     deprecated_declared_classes |-> <<>>, nonces |-> <<>>, replaced_classes |-> <<>>]

\* a loop of the decoder has ended at offset with the maps sd
Parsed(offset, sd) == [kind |-> "Ok", offset |-> offset, diff |-> sd]

RECURSIVE StorageUpdates(_, _, _, _)
\* the inner loop of both decoders: n (key, value) pairs into diffs
StorageUpdates(data, offset, n, diffs) ==
    IF n = 0 THEN [kind |-> "Ok", offset |-> offset, diffs |-> diffs]
    ELSE IF ~InBounds(data, offset) THEN Panic
    ELSE IF ~IsStarkFelt(At(data, offset)) \/ ~IsPatriciaKey(At(data, offset)) THEN BoxedError
    ELSE IF ~InBounds(data, offset + 1) THEN Panic
    ELSE IF ~IsStarkFelt(At(data, offset + 1)) THEN BoxedError
    ELSE StorageUpdates(data, offset + 2, n - 1,
                        MapInsert(diffs, At(data, offset), At(data, offset + 1)))

\* a summary whose class flag is never seen
ClassInfoFlagUnset(summary) == FALSE

\* decode_011_diff: class_info_flag
ClassInfoFlag(summary) == Bit(summary, 128)

RECURSIVE ContractUpdates011(_, _, _, _)
\* decode_011_diff: the loop over num_contract_updates
ContractUpdates011(data, offset, n, sd) ==
    IF n = 0 THEN Parsed(offset, sd)
    ELSE IF ~InBounds(data, offset) THEN Panic
    ELSE IF ~IsStarkFelt(At(data, offset)) \/ ~IsPatriciaKey(At(data, offset)) THEN BoxedError
    ELSE IF ~InBounds(data, offset + 1) THEN Panic
    ELSE
      LET address == At(data, offset)
          summary == At(data, offset + 1)
          num_storage_updates == LowU64(summary)
          class_info_flag == ClassInfoFlag(summary)
          nonces_value == ShiftRightWidth(summary)
          with_nonce == [sd EXCEPT !.nonces = MapInsert(@, address, nonces_value)]
          with_class == IF class_info_flag
                        THEN [with_nonce EXCEPT
                                 !.replaced_classes = MapInsert(@, address, At(data, offset + 2))]
                        ELSE with_nonce
          after_class == IF class_info_flag THEN offset + 3 ELSE offset + 2
          storage == StorageUpdates(data, after_class, num_storage_updates, <<>>)
      IN IF ~IsFelt252(nonces_value) THEN Panic
         ELSE IF class_info_flag /\ ~InBounds(data, offset + 2) THEN Panic
         ELSE IF class_info_flag /\ ~IsFelt252(At(data, offset + 2)) THEN Panic
         ELSE IF num_storage_updates > 0
              THEN IF storage.kind /= "Ok" THEN storage
                   ELSE ContractUpdates011(data, storage.offset, n - 1,
                            [with_class EXCEPT
                                !.storage_diffs = MapInsert(@, address, storage.diffs)])
              ELSE ContractUpdates011(data, after_class, n - 1, with_class)

RECURSIVE DeclaredClasses011(_, _, _, _)
\* decode_011_diff: the loop over num_declared_classes; the pair is read and
\* the insert into declared_classes is commented out
DeclaredClasses011(data, offset, n, sd) ==
    IF n = 0 THEN Parsed(offset, sd)
    ELSE IF ~InBounds(data, offset) THEN Panic
    ELSE IF ~IsFelt252(At(data, offset)) THEN BoxedError
    ELSE IF ~InBounds(data, offset + 1) THEN Panic
    ELSE IF ~IsFelt252(At(data, offset + 1)) THEN BoxedError
    ELSE DeclaredClasses011(data, offset + 2, n - 1, sd)

\* decode_011_diff
Decode011Diff(data) ==
    IF ~InBounds(data, 0) THEN Panic
    ELSE LET updates == ContractUpdates011(data, 1, LowU64(At(data, 0)), EmptyStateDiff)
         IN IF updates.kind /= "Ok" THEN updates
            ELSE IF ~InBounds(data, updates.offset) THEN Panic
            ELSE DeclaredClasses011(data, updates.offset + 1,
                                    LowU64(At(data, updates.offset)), updates.diff)

\* constructor arguments that are never skipped
SkipsConstructorArgsNever(flag) == FALSE

\* decode_pre_011_diff: if with_constructor_args
SkipsConstructorArgs(flag) == flag

\* the loop condition with the bound included
MoreDeploymentsInclusive(offset, num_deployments_cells) == offset - 1 <= num_deployments_cells

\* decode_pre_011_diff: while offset - 1 < num_deployments_cells
MoreDeployments(offset, num_deployments_cells) == offset - 1 < num_deployments_cells

RECURSIVE Deployments(_, _, _, _, _)
\* decode_pre_011_diff: while offset - 1 < num_deployments_cells
Deployments(data, offset, num_deployments_cells, flag, sd) ==
    IF ~MoreDeployments(offset, num_deployments_cells) THEN Parsed(offset, sd)
    ELSE IF ~InBounds(data, offset) THEN Panic
    ELSE IF ~IsStarkFelt(At(data, offset)) \/ ~IsPatriciaKey(At(data, offset)) THEN BoxedError
    ELSE IF ~InBounds(data, offset + 1) THEN Panic
    ELSE IF ~IsFelt252(At(data, offset + 1)) THEN Panic
    ELSE
      LET deployed == [sd EXCEPT !.deployed_contracts =
                           MapInsert(@, At(data, offset), At(data, offset + 1))]
      IN IF SkipsConstructorArgs(flag)
         THEN IF ~InBounds(data, offset + 2) THEN Panic
              ELSE IF ~FitsUsize(At(data, offset + 2)) THEN Panic
              ELSE Deployments(data, offset + 3 + LowU64(At(data, offset + 2)),
                               num_deployments_cells, flag, deployed)
         ELSE Deployments(data, offset + 2, num_deployments_cells, flag, deployed)

RECURSIVE StorageUpdatesPre011(_, _, _, _)
\* decode_pre_011_diff: for _i in 0..updates_len
StorageUpdatesPre011(data, offset, n, sd) ==
    IF n = 0 THEN Parsed(offset, sd)
    ELSE IF ~InBounds(data, offset) THEN Panic
    ELSE IF ~IsStarkFelt(At(data, offset)) \/ ~IsPatriciaKey(At(data, offset)) THEN BoxedError
    ELSE IF ~InBounds(data, offset + 1) THEN Panic
    ELSE
      LET address == At(data, offset)
          num_updates == LowU64(At(data, offset + 1))
          nonce == ShiftRightWidth(At(data, offset + 1))
          storage == StorageUpdates(data, offset + 2, num_updates, <<>>)
      IN IF ~IsFelt252(nonce) THEN Panic
         ELSE IF storage.kind /= "Ok" THEN storage
         ELSE StorageUpdatesPre011(data, storage.offset, n - 1,
                  [sd EXCEPT !.nonces = MapInsert(@, address, nonce),
                             !.storage_diffs = MapInsert(@, address, storage.diffs)])

\* decode_pre_011_diff
DecodePre011Diff(data, flag) ==
    IF ~InBounds(data, 0) THEN Panic
    ELSE IF ~FitsUsize(At(data, 0)) THEN Panic
    ELSE LET deployments == Deployments(data, 1, LowU64(At(data, 0)), flag, EmptyStateDiff)
         IN IF deployments.kind /= "Ok" THEN deployments
            ELSE IF ~InBounds(data, deployments.offset) THEN Panic
            ELSE IF ~FitsUsize(At(data, deployments.offset)) THEN Panic
            ELSE StorageUpdatesPre011(data, deployments.offset + 1,
                                      LowU64(At(data, deployments.offset)), deployments.diff)

InitParse ==
    /\ PipelineIdle
    /\ DiffIdle
    /\ RetryIdle
    /\ DaIdle
    /\ DbIdle
    /\ TasksIdle
    /\ fact_input_sn_output \in Blobs
    /\ decoder = ""
    /\ with_constructor_args = FALSE
    /\ decoded = [kind |-> "none"]

\* decode_011_diff(&mut fact_input_sn_output)
Decode011 ==
    /\ decoder = ""
    /\ decoder' = "decode_011_diff"
    /\ decoded' = Decode011Diff(fact_input_sn_output)
    /\ UNCHANGED <<fact_input_sn_output, with_constructor_args>>
    /\ UNCHANGED nonParseVars

\* decode_pre_011_diff(&mut fact_input_sn_output, with_constructor_args)
DecodePre011 ==
    /\ decoder = ""
    /\ decoder' = "decode_pre_011_diff"
    /\ \E flag \in BOOLEAN :
        /\ with_constructor_args' = flag
        /\ decoded' = DecodePre011Diff(fact_input_sn_output, flag)
    /\ UNCHANGED fact_input_sn_output
    /\ UNCHANGED nonParseVars

NextParse ==
    \/ Decode011
    \/ DecodePre011

SpecParse == InitParse /\ [][NextParse]_vars

(***************************************************************************)
(* data-availability/src/starknet/mod.rs: StarknetClient.  A U256 is the   *)
(* sequence of its NumLimbs limbs, a u128 and a FieldElement built from a  *)
(* u128 the sequence of the low half of them.                              *)
(***************************************************************************)
\* limbs of a u128
NumLimbs128 == 8

\* FieldElement::from(n) for n < 2^16
FeltFrom(n) == [i \in 1..NumLimbs128 |-> IF i = 1 THEN n ELSE 0]

\* U256::low_u128
LowU128(c) == SubSeq(c, 1, NumLimbs128)

\* U256::as_u128 does not panic: the value is below 2^128
FitsU128(c) == \A i \in (NumLimbs128 + 1)..NumLimbs : c[i] = 0

\* (ft >> 128).as_u128()
HighU128(c) == SubSeq(c, NumLimbs128 + 1, NumLimbs)

\* U256::from(n: u128)
U256FromU128(n) == n \o [i \in 1..(NumLimbs - NumLimbs128) |-> 0]

\* U256::add(U256::one()), for a value below 2^256 - 1
AddOne(c) ==
    LET k == CHOOSE i \in 1..NumLimbs :
                 c[i] /= LimbBase - 1 /\ \A j \in 1..(i - 1) : c[j] = LimbBase - 1
    IN [i \in 1..NumLimbs |-> IF i < k THEN 0 ELSE IF i = k THEN c[i] + 1 ELSE c[i]]

\* the largest u128
MaxU128 == [i \in 1..NumLimbs |-> IF i <= NumLimbs128 THEN LimbBase - 1 ELSE 0]

\* values of the diff cells: small ones, and one with a non-zero high half
DaCells == {U256From(1), U256From(2), FlagNonceOne}

\* longest diff passed to publish_state_diff
MaxDiffLen == 5

DaDiffs == UNION {[1..n -> DaCells] : n \in 0..MaxDiffLen}

\* the six felts of LastState() -> (u256, u256, u256) with the given felt at index 2
LastStateOf(felt) == [i \in 1..6 |-> IF i = 3 THEN felt ELSE ZeroCell]

\* a published block number of the worked example of the DA contract
N42 == U256From(42)

\* answers of provider.call: an error, a result that has not six felts, and
\* six felts whose third is 42, 2^128 - 1 or 2^128
LastStates ==
    {[kind |-> "Err"], [kind |-> "Ok", value |-> <<>>]}
        \cup {[kind |-> "Ok", value |-> LastStateOf(f)] : f \in {N42, MaxU128, AddOne(MaxU128)}}

\* DaClient::last_published_state, as a u128
LastPublishedState(resp) ==
    IF resp.kind = "Err" THEN [kind |-> "Err"]
    ELSE IF Len(resp.value) /= 6 THEN [kind |-> "Ok", value |-> LowU128(ZeroCell)]
    ELSE IF ~FitsU128(resp.value[3]) THEN [kind |-> "Err"]
    ELSE [kind |-> "Ok", value |-> LowU128(resp.value[3])]

\* publish_state_diff: if index == state_diff_len - 2
BlockNumberSlot(index, state_diff_len) == index = state_diff_len - 2

RECURSIVE PushCells(_, _, _, _)
\* publish_state_diff: the for loop from index on (indexes from 0), calldata
\* being what has been pushed so far
PushCells(state_diff, index, resp, calldata) ==
    IF index = Len(state_diff) THEN [kind |-> "Ok", calldata |-> calldata]
    ELSE IF BlockNumberSlot(index, Len(state_diff))
    THEN LET last == LastPublishedState(resp)
         IN IF last.kind = "Err" THEN [kind |-> "Err"]
            ELSE LET current_block_number == AddOne(U256FromU128(last.value))
                 IN IF ~FitsU128(current_block_number) THEN Panic
                    ELSE PushCells(state_diff, index + 1, resp,
                                   calldata \o <<LowU128(current_block_number),
                                                 HighU128(current_block_number)>>)
    ELSE LET ft == state_diff[index + 1]
         IN IF ~FitsU128(ft) THEN Panic
            ELSE PushCells(state_diff, index + 1, resp,
                           calldata \o <<LowU128(ft), HighU128(ft)>>)

\* publish_state_diff up to the transaction: the calldata, an error or a panic
BuildCalldata(state_diff, resp) ==
    IF Len(state_diff) < 3 THEN [kind |-> "Err"]
    ELSE PushCells(state_diff, 0, resp, <<FeltFrom(Len(state_diff) - 3)>>)

RECURSIVE CallsInLoop(_, _, _)
\* publish_state_diff: the calls of last_published_state the for loop makes from
\* index on; the loop ends at an error (`?`) and at a panic
CallsInLoop(state_diff, index, resp) ==
    IF index = Len(state_diff) THEN 0
    ELSE IF BlockNumberSlot(index, Len(state_diff))
    THEN LET last == LastPublishedState(resp)
         IN 1 + (IF last.kind = "Err" THEN 0
                 ELSE IF ~FitsU128(AddOne(U256FromU128(last.value))) THEN 0
                 ELSE CallsInLoop(state_diff, index + 1, resp))
    ELSE IF ~FitsU128(state_diff[index + 1]) THEN 0
         ELSE CallsInLoop(state_diff, index + 1, resp)

\* the calls of last_published_state one publish_state_diff makes
LastPublishedStateCalls(state_diff, resp) ==
    IF Len(state_diff) < 3 THEN 0 ELSE CallsInLoop(state_diff, 0, resp)

InitDa ==
    /\ PipelineIdle
    /\ DiffIdle
    /\ RetryIdle
    /\ ParseIdle
    /\ DbIdle
    /\ TasksIdle
    /\ da_state_diff \in DaDiffs
    /\ last_state \in LastStates
    /\ send_ok \in BOOLEAN
    /\ da_sent = <<>>
    /\ da_res = ""

\* publish_state_diff(state_diff): build the calldata, then execute UpdateState
PublishStateDiff ==
    /\ da_res = ""
    /\ LET built == BuildCalldata(da_state_diff, last_state)
       IN IF built.kind /= "Ok"
          THEN /\ da_res' = built.kind
               /\ da_sent' = da_sent
          ELSE IF send_ok
               THEN /\ da_sent' = Append(da_sent, built.calldata)
                    /\ da_res' = "Ok"
               ELSE /\ da_sent' = da_sent
                    /\ da_res' = "Err"
    /\ UNCHANGED <<da_state_diff, last_state, send_ok>>
    /\ UNCHANGED nonDaVars

NextDa == PublishStateDiff

SpecDa == InitDa /\ [][NextDa]_vars

(***************************************************************************)
(* db/src/da_db.rs: DaDb.  A column is the set of its entries [key, value],*)
(* keys and values being byte sequences; a transaction is committed whole  *)
(* or not at all.                                                          *)
(***************************************************************************)
\* Option
Some(v) == <<v>>
Nothing == <<>>

\* the little-endian bytes of a number below 256 in a field of len bytes
LeBytes(n, len) == [i \in 1..len |-> IF i = 1 THEN n ELSE 0]

\* B::Hash::encode: the 32 bytes of the hash
EncodeHash(h) == LeBytes(h, 32)

\* U256::encode: 32 little-endian bytes, two per limb
EncodeU256(c) == Flatten([i \in 1..NumLimbs |-> <<c[i] % 256, c[i] \div 256>>])

\* U256::decode of 32 bytes
DecodeU256(raw) == [i \in 1..NumLimbs |-> raw[(2 * i) - 1] + (256 * raw[2 * i])]

\* Vec<U256>::encode for fewer than 64 elements: the compact length in one
\* byte, then the elements
EncodeVec(diffs) == <<4 * Len(diffs)>> \o Flatten([i \in 1..Len(diffs) |-> EncodeU256(diffs[i])])

\* Vec<U256>::decode: the compact length, then that many elements; bytes left
\* over are ignored.  A length in the two-byte mode or above announces at
\* least 64 elements, more than any value of the model holds.
DecodeVec(raw) ==
    IF raw = <<>> THEN [kind |-> "Err"]
    ELSE IF raw[1] % 4 /= 0 THEN [kind |-> "Err"]
    ELSE LET n == raw[1] \div 4
         IN IF Len(raw) - 1 < 32 * n THEN [kind |-> "Err"]
            ELSE Ok([i \in 1..n |-> DecodeU256(SubSeq(raw, 2 + (32 * (i - 1)), 1 + (32 * i)))])

\* Uuid::from_slice
UuidFromSlice(raw) == IF Len(raw) = 16 THEN Ok(raw) ELSE [kind |-> "Err"]

\* static_keys::LAST_PROVED_BLOCK, the bytes of its name
LAST_PROVED_BLOCK == <<76, 65, 83, 84, 95, 80, 82, 79, 86, 69, 68, 95, 66, 76, 79, 67, 75>>

\* Database::get
Get(column, key) ==
    IF \E e \in column : e.key = key
    THEN Some((CHOOSE e \in column : e.key = key).value)
    ELSE Nothing

\* Transaction::set, applied by commit
Set(column, key, value) ==
    {e \in column : e.key /= key} \cup {[key |-> key, value |-> value]}

\* DaDb::state_diff
StateDiffOf(column, block_hash) ==
    LET raw == Get(column, EncodeHash(block_hash))
    IN IF raw = Nothing THEN Ok(<<>>) ELSE DecodeVec(raw[1])

\* DaDb::cairo_job
CairoJob(column, block_hash) ==
    LET raw == Get(column, EncodeHash(block_hash))
    IN IF raw = Nothing THEN [kind |-> "Err"] ELSE UuidFromSlice(raw[1])

\* DaDb::last_proved_block
LastProvedBlock(column) ==
    LET raw == Get(column, LAST_PROVED_BLOCK)
    IN IF raw = Nothing THEN [kind |-> "Err"]
       ELSE IF Len(raw[1]) < 32 THEN [kind |-> "Err"] ELSE Ok(raw[1][1])

\* diffs stored: empty, one cell, two cells
DbDiffs == {<<>>, <<U256From(1)>>, <<U256From(1), FlagNonceOne>>}

\* job ids: the nil UUID and one whose first byte is 4
DbJobs == {LeBytes(0, 16), LeBytes(4, 16)}

InitDaDb ==
    /\ PipelineIdle
    /\ DiffIdle
    /\ RetryIdle
    /\ ParseIdle
    /\ DaIdle
    /\ DbIdle
    /\ TasksIdle

\* store_state_diff(block_hash, diffs); the commit may fail
StoreStateDiff ==
    /\ \E block_hash \in DbHashes, diffs \in DbDiffs, ok \in BOOLEAN :
        IF ok
        THEN /\ da_column' = Set(da_column, EncodeHash(block_hash), EncodeVec(diffs))
             /\ stored_diff' = [stored_diff EXCEPT ![block_hash] = Some(diffs)]
        ELSE UNCHANGED <<da_column, stored_diff>>
    /\ UNCHANGED <<l1_header_column, stored_job>>
    /\ UNCHANGED nonDbVars

\* update_cairo_job(block_hash, job_id); the commit may fail
UpdateCairoJob ==
    /\ \E block_hash \in DbHashes, job_id \in DbJobs, ok \in BOOLEAN :
        IF ok
        THEN /\ da_column' = Set(da_column, EncodeHash(block_hash), job_id)
             /\ stored_job' = [stored_job EXCEPT ![block_hash] = Some(job_id)]
        ELSE UNCHANGED <<da_column, stored_job>>
    /\ UNCHANGED <<l1_header_column, stored_diff>>
    /\ UNCHANGED nonDbVars

\* update_last_proved_block(block_hash); the commit may fail
UpdateLastProvedBlock ==
    /\ \E block_hash \in DbHashes, ok \in BOOLEAN :
        da_column' = IF ok THEN Set(da_column, LAST_PROVED_BLOCK, EncodeHash(block_hash))
                     ELSE da_column
    /\ UNCHANGED <<l1_header_column, stored_diff, stored_job>>
    /\ UNCHANGED nonDbVars

\* u64::encode: 8 little-endian bytes
EncodeU64(n) == LeBytes(n, 8)

\* u64::decode
DecodeU64(raw) == IF Len(raw) < 8 THEN [kind |-> "Err"] ELSE Ok(raw[1])

\* L1StarknetHead::encode: the fields one after the other
EncodeHead(l1_header) ==
    EncodeU64(l1_header.block_number) \o EncodeHash(l1_header.block_hash)
        \o EncodeHash(l1_header.global_root)

\* L1StarknetHead::decode
DecodeHead(raw) ==
    IF Len(raw) < 72 THEN [kind |-> "Err"]
    ELSE Ok([block_number |-> raw[1], block_hash |-> raw[9], global_root |-> raw[41]])

\* block numbers and state roots of the headers written
DbNumbers == {1, 2}
DbRoots == {1, 2}

L1StarknetHeads == [block_number : DbNumbers, block_hash : DbHashes, global_root : DbRoots]

\* the transaction of write_l1_starknet_block_header: the header under its
\* number, and the number under the header's hash
HeaderTransaction(column, l1_header) ==
    Set(Set(column, EncodeU64(l1_header.block_number), EncodeHead(l1_header)),
        EncodeHash(l1_header.block_hash), EncodeU64(l1_header.block_number))

\* DaDb::l1_starknet_block_header_from_block_number
FromBlockNumber(column, block_number) ==
    LET raw == Get(column, EncodeU64(block_number))
    IN IF raw = Nothing THEN [kind |-> "Err"] ELSE DecodeHead(raw[1])

\* DaDb::l1_starknet_block_header_from_block_hash
FromBlockHash(column, block_hash) ==
    LET raw == Get(column, EncodeHash(block_hash))
    IN IF raw = Nothing THEN [kind |-> "Err"]
       ELSE IF DecodeU64(raw[1]).kind = "Err" THEN [kind |-> "Err"]
       ELSE FromBlockNumber(column, DecodeU64(raw[1]).value)

\* write_l1_starknet_block_header(l1_header); the commit may fail
WriteL1StarknetBlockHeader ==
    /\ \E l1_header \in L1StarknetHeads, ok \in BOOLEAN :
        l1_header_column' = IF ok THEN HeaderTransaction(l1_header_column, l1_header)
                            ELSE l1_header_column
    /\ UNCHANGED <<da_column, stored_diff, stored_job>>
    /\ UNCHANGED nonDbVars

NextDaDb ==
    \/ StoreStateDiff
    \/ UpdateCairoJob
    \/ UpdateLastProvedBlock
    \/ WriteL1StarknetBlockHeader

SpecDaDb == InitDaDb /\ [][NextDaDb]_vars

(***************************************************************************)
(* Properties of the sync pipeline (checked under Spec).                   *)
(***************************************************************************)
L2Numbers(batch) == [i \in 1..Len(batch) |-> batch[i].l1_l2_block_mapping.l2_block_number]

StrictlyAscending(ns) == \A i \in 1..(Len(ns) - 1) : ns[i] < ns[i + 1]

AtLeastAsAdvanced(mapping, cfg) ==
    /\ mapping.l1_block_number >= cfg.l1_start
    /\ mapping.l2_block_number >= cfg.l2_start

HighestApplied == SetMax(appliedOk \cup {-1})

\* C1: cursor monotonicity: every write of the persisted L1L2BlockMapping, the
\* startup write of create_and_run included, leaves l1_block_number and
\* l2_block_number each at least what was persisted before the write.
C1_CursorMonotone ==
    [][(persisted /= None /\ persisted' /= persisted)
        => /\ persisted'.l1_block_number >= persisted.l1_block_number
           /\ persisted'.l2_block_number >= persisted.l2_block_number]_vars

\* C2: at startup a persisted mapping that is at least as advanced as the
\* configured {l1_start, l2_start} wins: the mapping stored by create_and_run
\* is the previously persisted one.
C2_PersistedWins ==
    [][(main = "boot" /\ main' = "running" /\ persisted /= None
        /\ AtLeastAsAdvanced(persisted, config))
        => persisted' = persisted]_vars

\* C3: a cursor persisted by the writer task has an l2_block_number at most the
\* highest L2 block number for which apply_state_diff has returned success.
C3_CursorBehindWrites ==
    cursorBy = "writer" => persisted.l2_block_number <= HighestApplied

\* C4: every batch delivered to the writer is strictly ascending in
\* l2_block_number, and the writer calls apply_state_diff on its elements in
\* that order.
C4_BatchesAscending ==
    /\ \A i \in 1..Len(chan) : StrictlyAscending(L2Numbers(chan[i]))
    /\ StrictlyAscending(L2Numbers(fetched_states))
    /\ Len(applyCalls) <= Len(fetched_states)
    /\ applyCalls = SubSeq(L2Numbers(fetched_states), 1, Len(applyCalls))

\* C4 witness: a batch of at least two elements of which the writer has
\* applied every one.
C4_Witness ==
    /\ Len(fetched_states) >= 2
    /\ Len(applyCalls) = Len(fetched_states)

\* C5: every FetchState of a batch sent on the channel has an l2_block_number
\* at or above the L2 cursor that was passed to the fetch that produced it.
C5_BatchAtOrAboveCursor ==
    \A i \in 1..Len(lastSent) :
        lastSent[i].l1_l2_block_mapping.l2_block_number >= lastSentFrom

\* C5 witness: a batch was sent although a LogStateUpdate below the cursor sits
\* in the same L1 block as one of its elements (the filter dropped it).
C5_Witness ==
    /\ lastSent /= <<>>
    /\ \E i \in 1..Len(chain) :
        /\ chain[i].update.block_number < lastSentFrom
        /\ chain[i].eth_origin.block_number = lastSent[1].l1_l2_block_mapping.l1_block_number

\* C6 as claimed: the number of cursor writes of the writer task equals the
\* number of FetchStates it has written successfully (whenever the writer is
\* between batches).
C6_OncePerFetchState ==
    (main = "running" /\ wpc = "recv") => nCursorWrites = nApplyOk

\* C6 amended: the cursor is written once per received batch, after all of the
\* batch's apply_state_diff calls and whatever they returned.
C6_OncePerBatch ==
    /\ wpc = "recv" => nCursorWrites = nBatches
    /\ wpc \in {"apply", "persist", "done"} => nCursorWrites = nBatches - 1
    /\ (wpc = "recv" /\ nBatches > 0) => Len(applyCalls) = Len(fetched_states)
    /\ wpc = "persist" => Len(applyCalls) = Len(fetched_states)

\* C6 witness: a batch of two FetchStates, both written successfully, and one
\* cursor write.
C6_Witness ==
    /\ wpc = "recv" /\ nBatches = 1 /\ nCursorWrites = 1
    /\ Len(fetched_states) = 2 /\ nApplyOk = 2

\* the window the fetcher is about to fetch holds an update without fact log
FactMissingInWindow ==
    LET r == QueryStateUpdate(chain, l1_head, eth_from_height, starknet_start_height)
    IN /\ r.kind = "Ok"
       /\ \E i \in 1..Len(r.updates) : r.updates[i].update.block_number \in missing_fact

\* an iteration of the fetcher loop ends (with the sleep or with continue)
FetcherIterates ==
    /\ main = "running" /\ main' = "running" /\ fpc = "loop"
    /\ (fpc' = "sleep" \/ eth_from_height' /= eth_from_height)

\* C11: missing fact: when the LogStateTransitionFact log of an update of the
\* fetched batch is absent, state_diff returns an error for the whole batch
\* (L1StateError, unless an RPC or another update failed first), nothing is
\* sent on the channel, and eth_from_height, starknet_start_height and the
\* persisted cursor are unchanged.
C11_MissingFactAborts ==
    [][(FetcherIterates /\ FactMissingInWindow)
        => /\ fetch_res' \in {"L1StateError"} \cup OtherErrors
           /\ chan' = chan
           /\ eth_from_height' = eth_from_height
           /\ starknet_start_height' = starknet_start_height
           /\ persisted' = persisted]_vars

\* C11: L1StateError is returned only for a window that holds an update
\* without fact log, and leaves the cursors where the fetch started.
C11_L1StateErrorOnlyWhenMissing ==
    (fetch_res = "L1StateError" /\ fpc = "sleep") => FactMissingInWindow

\* C11 witness: a first batch went through, then a batch of two updates, the
\* second without fact log, was aborted with L1StateError.
C11_Witness ==
    /\ fetch_res = "L1StateError" /\ fpc = "sleep"
    /\ nBatches >= 1
    /\ LET r == QueryStateUpdate(chain, l1_head, eth_from_height, starknet_start_height)
       IN Len(r.updates) = 2 /\ r.updates[2].update.block_number \in missing_fact

(***************************************************************************)
(* Properties of query_state_diff (checked under SpecDiff).                *)
(***************************************************************************)
PRE_011 == "decode_pre_011_diff"
V_011 == "decode_011_diff"

\* decode_state_diff has returned
DecodeReturned == dpc = "done" \/ (dpc = "err" /\ derr \in {"TypeError", "UnknownBlock"})

\* query_state_transition_fact has returned on a response of the provider
FactReturned == dpc = "pages" \/ (dpc = "err" /\ derr \in {"L1StateError", "L1EventDecode"})

\* query_memory_page_fact_continuous_logs has returned Ok
ContinuousReturned == page_logs /= <<>> /\ (continuous_logs /= <<>> \/ dpc = "panic")

\* the position on L1 of a returned log
PositionOf(log) == CHOOSE i \in 1..Len(page_logs) : page_logs[i].tx_hash = log.tx_hash

\* the values carried by the calldata of the transactions of a list of logs
ValuesOf(logs) == Flatten([i \in 1..Len(logs) |-> PageValues(logs[i].memory_hash)])

\* the logs of the pending pages, scanned in chain order
ScannedChronologically ==
    SelectSeq(page_logs, LAMBDA log : log.memory_hash \in Range(pages_list))

\* C7 as claimed: below v011_diff_format_height the pre-0.11 decoder is invoked
\* and the 0.11 decoder is not; at or above it the 0.11 decoder is invoked and
\* the pre-0.11 decoder is not.
C7_VersionBoundary ==
    DecodeReturned =>
        IF update_l1 < v011_diff_format_height
        THEN decoders = {PRE_011}
        ELSE decoders = {V_011}

\* C7 amended: below the height exactly the pre-0.11 decoder is invoked; at or
\* above it the pre-0.11 decoder is never invoked, and the 0.11 decoder is
\* invoked unless the lookup of the parent block hash fails, in which case
\* UnknownBlock is returned and no decoder is invoked.
C7_VersionBoundaryOrUnknownBlock ==
    DecodeReturned =>
        IF update_l1 < v011_diff_format_height
        THEN decoders = {PRE_011} /\ derr /= "UnknownBlock"
        ELSE IF derr = "UnknownBlock" THEN decoders = {} ELSE decoders = {V_011}

\* C7 witness: an update at exactly the format height, decoded by the 0.11 decoder.
C7_Witness ==
    /\ DecodeReturned
    /\ update_l1 = v011_diff_format_height
    /\ decoders = {V_011}

\* C8: page reassembly: whatever the order of pages_hashes and the windows the
\* matching logs fall in, the logs returned are in ascending L1 order, every
\* pending page hash is matched by exactly one of them, and the concatenation
\* of their calldata values is that of the chronological scan.
C8_PageReassembly ==
    ContinuousReturned =>
        /\ \A i, j \in 1..Len(continuous_logs) :
            i < j => PositionOf(continuous_logs[i]) < PositionOf(continuous_logs[j])
        /\ \A i \in 1..Len(continuous_logs) :
            /\ continuous_logs[i] \in Range(page_logs)
            /\ continuous_logs[i].memory_hash \in Range(pages_list)
        /\ \A h \in Range(pages_list) :
            Cardinality({i \in 1..Len(continuous_logs) : continuous_logs[i].memory_hash = h}) = 1
        /\ ValuesOf(continuous_logs) = ValuesOf(ScannedChronologically)

\* C8 witness: two or more pages matched in different windows, the page listed
\* first in pages_hashes registered last.
C8_Witness ==
    /\ ContinuousReturned
    /\ Len(continuous_logs) >= 2
    /\ continuous_logs[Len(continuous_logs)].block - continuous_logs[1].block > LOG_SEARCH_STEP
    /\ pages_list[1] = continuous_logs[Len(continuous_logs)].memory_hash

\* C9: the diff blob is the concatenation, in reassembled order, of the values
\* of every reassembled page but the first.
C9_BlobSkipsFirstPage ==
    /\ (dpc = "decode" \/ DecodeReturned) =>
        tx_input_data = ValuesOf([i \in 1..(Len(continuous_logs) - 1) |-> continuous_logs[i + 1]])
    /\ dpc = "tx" =>
        tx_input_data = ValuesOf([i \in 1..(tx_idx - 1) |-> continuous_logs[i + 1]])

\* C9 witness: three pages reassembled and the blob handed to the decoder.
C9_Witness ==
    /\ dpc = "done"
    /\ Len(continuous_logs) = 3
    /\ tx_input_data = PageValues(continuous_logs[2].memory_hash)
                         \o PageValues(continuous_logs[3].memory_hash)

\* C10: query_state_transition_fact returns L1StateError when the logs of the
\* update's block hold no or more than one LogStateTransitionFact of the
\* update's transaction, and returns the fact only when they hold exactly one.
C10_ExactlyOneFact ==
    FactReturned =>
        LET found == SelectSeq(fact_logs, LAMBDA log : log.transaction_index = 0)
        IN /\ Len(found) /= 1 => (dpc = "err" /\ derr = "L1StateError")
           /\ dpc = "pages" => (Len(found) = 1 /\ fact = found[1].fact)

(***************************************************************************)
(* Properties of get_logs_retry and calculate_backoff (checked under       *)
(* SpecRetry).                                                             *)
(***************************************************************************)
\* the endpoints the retry loop of this call has sent get_logs to (the first
\* get_logs of the call, on http_provider, left out)
LoopAttempts == SubSeq(attempts, 2, Len(attempts))

\* min(2^n, 10), 2^n being above 10 from n = 4 on
MinPow2Or10(n) == IF n >= 4 THEN 10 ELSE 2 ^ n

\* the first k endpoints fail, the others answer, and the call is the first
\* one (the shared index is 0 when it starts)
FirstKFail(k) == calls = 0 /\ k < eth_url_list /\ down = 0..(k - 1)

\* C12: when every endpoint fails, get_logs_retry gives up after one full pass
\* through the URL list: it has returned Err only when every endpoint is down,
\* and then its retry loop has attempted each of the N endpoints exactly once.
C12_OnePassThenFail ==
    rpc = "failed" =>
        /\ down = 0..(eth_url_list - 1)
        /\ Len(LoopAttempts) = eth_url_list
        /\ \A e \in 0..(eth_url_list - 1) :
            Cardinality({i \in 1..Len(LoopAttempts) : LoopAttempts[i] = e}) = 1

\* C13: provider rotation: with the first k < N endpoints failing and the
\* index at 0, a get_logs_retry call does not fail, and when it has returned
\* it has succeeded on endpoint k after exactly k rotations and exactly k
\* sleeps of min(2^i, 10) seconds, i = 1..k.
C13_ProviderRotation ==
    \A k \in 0..MaxUrls :
        FirstKFail(k) =>
            /\ rpc /= "failed"
            /\ Len(sleeps) <= k /\ rotations <= k
            /\ rpc = "ok" =>
                /\ attempts[Len(attempts)] = k
                /\ rotations = k
                /\ sleeps = [i \in 1..k |-> MinPow2Or10(i)]

\* C13 witness: three endpoints, the first two failing: the call has
\* succeeded on the third after sleeps of 2 s and 4 s.
C13_Witness ==
    /\ rpc = "ok" /\ FirstKFail(2) /\ eth_url_list = 3
    /\ sleeps = <<2, 4>>
    /\ attempts[Len(attempts)] = 2

\* C14: calculate_backoff(n) is min(2^n, 10) seconds for every n >= 0, it is
\* non-decreasing in n, and no sleep of get_logs_retry exceeds 10 seconds.
C14_BackoffCapped ==
    /\ backoff /= 0 =>
        /\ backoff = MinPow2Or10(backoff_of)
        /\ \A m \in 0..backoff_of : CalculateBackoff(m) <= backoff
    /\ \A i \in 1..Len(sleeps) : 1 <= sleeps[i] /\ sleeps[i] <= 10

\* C14 witness: calculate_backoff(40) has returned 10, and a call has slept
\* 10 seconds at its fourth retry.
C14_Witness ==
    /\ backoff_of >= 40 /\ backoff = 10
    /\ Len(sleeps) >= 4 /\ sleeps[4] = 10

(***************************************************************************)
(* Properties of the decoders of parse_da.rs (checked under SpecParse).    *)
(***************************************************************************)
DECODE_011 == "decode_011_diff"
DECODE_PRE_011 == "decode_pre_011_diff"

\* the map a sequence of <<key, value>> insertions leaves: the last value of each key
PairsAsMap(pairs) ==
    [k \in {pairs[i][1] : i \in 1..Len(pairs)} |->
        pairs[CHOOSE i \in 1..Len(pairs) :
                /\ pairs[i][1] = k
                /\ \A j \in (i + 1)..Len(pairs) : pairs[j][1] /= k][2]]

\* no key occurs twice in an IndexMap
UniqueKeys(m) == \A i, j \in 1..Len(m) : m[i][1] = m[j][1] => i = j

\* the n (key, value) pairs that start at offset p
PairsAt(data, p, n) ==
    [i \in 1..n |-> <<At(data, p + (2 * (i - 1))), At(data, p + (2 * (i - 1)) + 1)>>]

\* storage_diffs with its inner maps as maps
StorageAsMap(storage_diffs) ==
    PairsAsMap([i \in 1..Len(storage_diffs) |->
                   <<storage_diffs[i][1], PairsAsMap(storage_diffs[i][2])>>])

\* the indexes in 1..n that satisfy Test, in order
Indexes(n, Test(_)) == SelectSeq([i \in 1..n |-> i], Test)

\* cells of the 0.11 contract update that starts at offset p: address, summary,
\* the class hash when bit 128 of the summary is set, and the storage pairs
EntryCells011(data, p) ==
    2 + (IF Bit(At(data, p + 1), 128) THEN 1 ELSE 0) + (2 * LowU64(At(data, p + 1)))

\* offsets at which the 0.11 contract updates start; the last one is the
\* offset of num_declared_classes
Starts011(data) ==
    LET n == LowU64(At(data, 0))
        start[i \in 1..(n + 1)] ==
            IF i = 1 THEN 1 ELSE start[i - 1] + EntryCells011(data, start[i - 1])
    IN start

\* C15: both decoders are total: whatever the blob, decode_011_diff and
\* decode_pre_011_diff return Ok(StateDiff) or an error value and never panic.
C15_DecodersTotal ==
    decoder /= "" => decoded.kind \in {"Ok", "Err"}

\* C16: 0.11 contract updates: for a blob decode_011_diff accepts, with entries
\* (address, summary) laid out one after the other, nonces[address] is
\* summary >> 64, replaced_classes[address] is the next cell iff bit 128 of the
\* summary is set, storage_diffs[address] holds the num_storage_updates =
\* summary & (2^64 - 1) pairs that follow and exists only when that number is
\* positive, and deployed_contracts is empty.
C16_ContractUpdates011 ==
    (decoder = DECODE_011 /\ decoded.kind = "Ok") =>
        LET data == fact_input_sn_output
            n == LowU64(At(data, 0))
            start == Starts011(data)
            address(i) == At(data, start[i])
            summary(i) == At(data, start[i] + 1)
            flag(i) == Bit(summary(i), 128)
            num(i) == LowU64(summary(i))
            pairs_at(i) == start[i] + 2 + (IF flag(i) THEN 1 ELSE 0)
            flagged == Indexes(n, flag)
            stored == Indexes(n, LAMBDA i : num(i) > 0)
            diff == decoded.diff
        IN /\ UniqueKeys(diff.nonces)
           /\ UniqueKeys(diff.replaced_classes)
           /\ UniqueKeys(diff.storage_diffs)
           /\ PairsAsMap(diff.nonces)
                = PairsAsMap([i \in 1..n |-> <<address(i), ShiftRightWidth(summary(i))>>])
           /\ PairsAsMap(diff.replaced_classes)
                = PairsAsMap([j \in 1..Len(flagged) |->
                                 <<address(flagged[j]), At(data, start[flagged[j]] + 2)>>])
           /\ StorageAsMap(diff.storage_diffs)
                = PairsAsMap([j \in 1..Len(stored) |->
                                 <<address(stored[j]),
                                   PairsAsMap(PairsAt(data, pairs_at(stored[j]), num(stored[j])))>>])
           /\ diff.deployed_contracts = <<>>
           /\ decoded.offset = start[n + 1] + 1 + (2 * LowU64(At(data, start[n + 1])))

\* C16 witness: the two contract updates of Example011Vector decoded: one
\* replaced class, two storage_diffs entries, two nonces.
C16_Witness ==
    /\ decoder = DECODE_011 /\ decoded.kind = "Ok"
    /\ fact_input_sn_output = Example011Vector
    /\ Len(decoded.diff.replaced_classes) = 1
    /\ Len(decoded.diff.storage_diffs) = 2
    /\ Len(decoded.diff.storage_diffs[2][2]) = 2
    /\ Len(decoded.diff.nonces) = 2

\* C17: 0.11 declared classes: the declared_classes of the StateDiff that
\* decode_011_diff returns has an entry class_hash -> compiled_class_hash for
\* each of the num_declared_classes pairs read after the contract updates.
C17_DeclaredClasses011 ==
    (decoder = DECODE_011 /\ decoded.kind = "Ok") =>
        LET data == fact_input_sn_output
            start == Starts011(data)
            at == start[LowU64(At(data, 0)) + 1]
            num_declared_classes == LowU64(At(data, at))
        IN /\ UniqueKeys(decoded.diff.declared_classes)
           /\ PairsAsMap(decoded.diff.declared_classes)
                = PairsAsMap(PairsAt(data, at + 1, num_declared_classes))

\* test_decode_pre_011_diff_v2: the golden vector has been decoded by
\* decode_pre_011_diff with with_constructor_args = false
GoldenVectorDecoded ==
    /\ decoder = DECODE_PRE_011
    /\ fact_input_sn_output = GoldenVector
    /\ ~with_constructor_args

\* C18 (as stated): decoding the golden vector of test_decode_pre_011_diff_v2
\* with with_constructor_args = false succeeds, does not run past the end of
\* the input, and yields deployed_contracts.len() == 2.
C18_GoldenVectorTwoDeployments ==
    GoldenVectorDecoded =>
        /\ decoded.kind = "Ok"
        /\ decoded.offset <= Len(GoldenVector)
        /\ Len(decoded.diff.deployed_contracts) = 2

\* C18 (amended): decoding the golden vector of test_decode_pre_011_diff_v2
\* with with_constructor_args = false succeeds, consumes exactly the 36 cells
\* of the input, and yields deployed_contracts.len() == 1: the first cell, 2,
\* counts the cells of the deployments section, not the deployments.
C18_GoldenVectorOneDeployment ==
    GoldenVectorDecoded =>
        /\ decoded.kind = "Ok"
        /\ decoded.offset = Len(GoldenVector)
        /\ Len(decoded.diff.deployed_contracts) = 1
        /\ decoded.diff.deployed_contracts[1] = <<GoldenVector[2], GoldenVector[3]>>

\* C18 witness: the golden vector decoded, with its five contract updates.
C18_Witness ==
    /\ GoldenVectorDecoded
    /\ decoded.kind = "Ok"
    /\ Len(decoded.diff.nonces) = 5

\* cells of the pre-0.11 deployment that starts at offset p: address, class
\* hash and, when constructor arguments are present, a length cell k and k cells
DeploymentCells(data, p, flag) ==
    2 + (IF flag THEN 1 + LowU64(At(data, p + 2)) ELSE 0)

RECURSIVE DeploymentStarts(_, _, _)
\* offsets at which the pre-0.11 deployments start, from offset p on: a
\* deployment starts at p while p - 1 < num_deployments_cells; the last
\* element is the offset of updates_len
DeploymentStarts(data, flag, p) ==
    IF p - 1 < LowU64(At(data, 0))
    THEN <<p>> \o DeploymentStarts(data, flag, p + DeploymentCells(data, p, flag))
    ELSE <<p>>

RECURSIVE UpdateStarts(_, _, _)
\* offsets at which n pre-0.11 contract updates start, the first one at offset
\* p; the last element is the offset after the last update
UpdateStarts(data, p, n) ==
    IF n = 0 THEN <<p>>
    ELSE <<p>> \o UpdateStarts(data, p + 2 + (2 * LowU64(At(data, p + 1))), n - 1)

\* C19: pre-0.11 decoding: for a blob decode_pre_011_diff accepts, deployments
\* are read while (offset - 1) < num_deployments_cells, each recorded as
\* deployed_contracts[address] = class_hash, with a length cell k and k argument
\* cells skipped only when with_constructor_args is set; then updates_len is
\* read and, exactly updates_len times, an address and a word with
\* num_updates = word & (2^64 - 1) and nonce = word >> 64: nonces[address] =
\* nonce and storage_diffs[address] holds exactly the num_updates pairs.
C19_DecodePre011 ==
    (decoder = DECODE_PRE_011 /\ decoded.kind = "Ok") =>
        LET data == fact_input_sn_output
            flag == with_constructor_args
            dstart == DeploymentStarts(data, flag, 1)
            m == Len(dstart) - 1
            updates_at == dstart[m + 1]
            updates_len == LowU64(At(data, updates_at))
            ustart == UpdateStarts(data, updates_at + 1, updates_len)
            num_updates(j) == LowU64(At(data, ustart[j] + 1))
            diff == decoded.diff
        IN /\ UniqueKeys(diff.deployed_contracts)
           /\ UniqueKeys(diff.nonces)
           /\ UniqueKeys(diff.storage_diffs)
           /\ PairsAsMap(diff.deployed_contracts)
                = PairsAsMap([i \in 1..m |-> <<At(data, dstart[i]), At(data, dstart[i] + 1)>>])
           /\ PairsAsMap(diff.nonces)
                = PairsAsMap([j \in 1..updates_len |->
                                 <<At(data, ustart[j]), ShiftRightWidth(At(data, ustart[j] + 1))>>])
           /\ StorageAsMap(diff.storage_diffs)
                = PairsAsMap([j \in 1..updates_len |->
                                 <<At(data, ustart[j]),
                                   PairsAsMap(PairsAt(data, ustart[j] + 2, num_updates(j)))>>])
           /\ decoded.offset = ustart[updates_len + 1]

\* C19 witness: ExamplePre011Vector decoded with constructor arguments: two
\* deployments, the first with two argument cells skipped, and two updates, the
\* first with one storage pair.
C19_Witness ==
    /\ decoder = DECODE_PRE_011 /\ decoded.kind = "Ok"
    /\ with_constructor_args
    /\ fact_input_sn_output = ExamplePre011Vector
    /\ Len(decoded.diff.deployed_contracts) = 2
    /\ Len(decoded.diff.nonces) = 2
    /\ Len(decoded.diff.storage_diffs[1][2]) = 1
    /\ decoded.offset = Len(ExamplePre011Vector)

(***************************************************************************)
(* The flag of the pre-0.11 decoder (checked under SpecDiff).              *)
(***************************************************************************)
\* C20: the with_constructor_args flag passed to the pre-0.11 decoder is
\* selected from the configuration value constructor_args_diff_height by
\* comparing the L1 height of the update with it: an update below that height is
\* decoded with with_constructor_args = true, so the flag is not a constant.
C20_FlagFromConfiguration ==
    PRE_011 \in decoders =>
        pre_011_flags = {update_l1 < constructor_args_diff_height}

(***************************************************************************)
(* Further properties of the sync pipeline (checked under Spec).           *)
(***************************************************************************)
\* the step is a state_diff call of the fetcher loop, and with it a
\* query_state_update call
FetchCall == fpc = "loop" /\ fpc' \in {"sleep", "scanning"}

\* C21: sync status oracle: the status is SYNCING when create_and_run has
\* built it; each query_state_update call that reads the L1 head sets it to
\* SYNCED when eth_from > head and to SYNCING otherwise, and nothing else
\* changes it; at every state is_major_syncing() is true iff the status is
\* SYNCING and is_offline() is false.
C21_SyncStatusOracle ==
    /\ []((main = "boot" /\ restarts = 0) => sync_status = "SYNCING")
    /\ []((IsMajorSyncing <=> sync_status /= "SYNCED") /\ ~IsOffline)
    /\ [][/\ (main = "boot" /\ main' /= "boot") => sync_status' = "SYNCING"
          /\ (FetchCall /\ highest_eth_block_number' >= 0)
               => sync_status' = IF eth_from_height > highest_eth_block_number'
                                 THEN "SYNCED" ELSE "SYNCING"
          /\ sync_status' /= sync_status
               => \/ main = "boot"
                  \/ FetchCall /\ highest_eth_block_number' >= 0]_vars

\* C21 witness: a query_state_update call from a cursor above the L1 head has
\* stored SYNCED, and the oracle reports that no major sync is going on.
C21_Witness ==
    /\ main = "running"
    /\ sync_status = "SYNCED"
    /\ eth_from_height > highest_eth_block_number
    /\ highest_eth_block_number >= 0
    /\ ~IsMajorSyncing

\* no window of the scan that starts at the fetcher's cursor holds a
\* LogStateUpdate at or above the L2 cursor
EmptyRange ==
    QueryStateUpdate(chain, l1_head, eth_from_height, starknet_start_height).kind = "scanning"

\* C22: empty range: when the scanned L1 range holds no LogStateUpdate at or
\* above the L2 cursor and no RPC fails, the fetch returns an empty batch: the
\* fetcher advances eth_from_height by exactly 10, leaves starknet_start_height
\* unchanged, sends nothing on the channel and goes on to the next cycle.
C22_EmptyRangeAdvances ==
    [][(main = "running" /\ fpc = "loop" /\ EmptyRange /\ fpc' \notin {"init", "sleep"}
          /\ fetcherVars' /= fetcherVars)
        => /\ eth_from_height' = eth_from_height + 10
           /\ starknet_start_height' = starknet_start_height
           /\ chan' = chan
           /\ fpc' = "loop"]_vars

\* the errors state_diff returns
FetchErrors == OtherErrors \cup {"L1StateError"}

\* C23: the fetcher task never terminates on error: whenever state_diff
\* returns an error, the fetcher leaves eth_from_height and
\* starknet_start_height unchanged, sends nothing on the channel and sleeps;
\* after the sleep it is at the top of its loop with the same cursor, and the
\* pipeline is still running.
C23_FetcherSurvivesErrors ==
    [][/\ (fpc = "loop" /\ fpc' \notin {"init", "scanning"} /\ fetch_res' \in FetchErrors
            /\ <<fpc, fetch_res, highest_eth_block_number>>'
                  /= <<fpc, fetch_res, highest_eth_block_number>>)
          => /\ eth_from_height' = eth_from_height
             /\ starknet_start_height' = starknet_start_height
             /\ chan' = chan
             /\ main' = main
             /\ fpc' = "sleep"
       /\ (fpc = "sleep" /\ fetch_res \in FetchErrors /\ fpc' \notin {"sleep", "init"})
          => /\ fpc' = "loop"
             /\ eth_from_height' = eth_from_height
             /\ starknet_start_height' = starknet_start_height
             /\ main' = main]_vars

\* C23 witness: state_diff has returned an error, the fetcher has slept and is
\* back at the top of its loop, the pipeline running.
C23_Witness ==
    /\ main = "running"
    /\ fpc = "loop"
    /\ fetch_res \in FetchErrors

\* the step is a failed write_last_l1_l2_mapping of the writer task
PersistFails ==
    /\ main = "running" /\ wpc = "persist" /\ fetched_states /= <<>>
    /\ wpc' /= "persist" /\ main' /= "boot"
    /\ nCursorWrites' = nCursorWrites

\* C24: when persisting the cursor fails in the writer task, the writer task
\* ends and, the two tasks being composed first-to-finish, the pipeline ends
\* with it: from then on (until the node is started again) no batch is
\* received or applied and the fetcher takes no step.
C24_PersistFailureEndsPipeline ==
    /\ [](wpc = "done" => main = "stopped")
    /\ [][/\ PersistFails => (wpc' = "done" /\ main' = "stopped")
          /\ (main = "stopped" /\ main' /= "boot")
               => UNCHANGED <<appliedOk, applyCalls, nApplyOk, nBatches, chan, fetched_states,
                              persisted, fetcherVars, main, wpc>>]_vars

\* C24 witness: the cursor write has failed while a later batch was waiting in
\* the channel; the pipeline has ended and the batch stays unapplied.
C24_Witness ==
    /\ main = "stopped"
    /\ wpc = "done"
    /\ chan /= <<>>

\* C25: state_diff returns either a FetchState for every StateUpdate that
\* query_state_update found or an error: a batch sent to the writer holds one
\* state per update of the window, none of them failed, and a fetch that
\* returns an error sends nothing.
C25_NoPartialBatch ==
    [][/\ (fpc = "loop" /\ Len(chan') > Len(chan))
          => LET r == QueryStateUpdate(chain, l1_head, eth_from_height, starknet_start_height)
                 batch == chan'[Len(chan')]
             IN /\ r.kind = "Ok"
                /\ Len(batch) = Len(r.updates)
                /\ {batch[i].l1_l2_block_mapping.l2_block_number : i \in 1..Len(batch)}
                     = {r.updates[i].update.block_number : i \in 1..Len(r.updates)}
                /\ \A i \in 1..Len(r.updates) :
                     r.updates[i].update.block_number \notin missing_fact
       /\ (FetchCall /\ fetch_res' \in FetchErrors /\ fpc' = "sleep") => chan' = chan]_vars

\* C25 witness: a batch of several states has been sent although the fact log
\* of another update of the chain is absent.
C25_Witness ==
    /\ fetch_res = "Ok"
    /\ Len(lastSent) >= 2
    /\ missing_fact /= {}

(***************************************************************************)
(* Properties of publish_state_diff (checked under SpecDa).                *)
(***************************************************************************)
\* publish_state_diff has been called with a diff of at least 3 cells, with
\* last_published_state() available and a transaction that can be sent
Published ==
    /\ da_res /= ""
    /\ Len(da_state_diff) >= 3
    /\ LastPublishedState(last_state).kind = "Ok"
    /\ send_ok

\* last_published_state() + 1 as a U256
NextBlockNumber == AddOne(U256FromU128(LastPublishedState(last_state).value))

\* low(v), high(v) of the cells i..j (indexes from 0) of a diff
HalvesOf(v, i, j) ==
    Flatten([k \in 1..(j - i + 1) |-> <<LowU128(v[i + k]), HighU128(v[i + k])>>])

\* C26: calldata shape: for a diff [v_0, ..., v_{n-1}] (n >= 3) and N =
\* last_published_state(), publish_state_diff emits the calldata [n-3,
\* low(v_0), high(v_0), ..., low(v_{n-2}), high(v_{n-2}), low(N+1), high(N+1),
\* low(v_{n-1}), high(v_{n-1})].
C26_CalldataShape ==
    Published =>
        LET v == da_state_diff
            n == Len(v)
        IN /\ da_res = "Ok"
           /\ da_sent = << <<FeltFrom(n - 3)>> \o HalvesOf(v, 0, n - 2)
                             \o <<LowU128(NextBlockNumber), HighU128(NextBlockNumber)>>
                             \o HalvesOf(v, n - 1, n - 1) >>

\* C27: for a diff of n >= 3 cells the calldata has length 1 + 2n, its first
\* cell is n - 3, every diff cell at index i /= n - 2 contributes its (low,
\* high) pair at positions 1 + 2i and 2 + 2i, and the pair of index n - 2 is
\* low/high of last_published_state() + 1.
C27_CalldataCells ==
    Published =>
        /\ da_res = "Ok"
        /\ Len(da_sent) = 1
        /\ LET v == da_state_diff
               n == Len(v)
               calldata == da_sent[1]
               pair(i) == <<calldata[2 + (2 * i)], calldata[3 + (2 * i)]>>
           IN /\ Len(calldata) = 1 + (2 * n)
              /\ calldata[1] = FeltFrom(n - 3)
              /\ \A i \in 0..(n - 1) :
                   pair(i) = IF i = n - 2
                             THEN <<LowU128(NextBlockNumber), HighU128(NextBlockNumber)>>
                             ELSE <<LowU128(v[i + 1]), HighU128(v[i + 1])>>

(***************************************************************************)
(* Properties of the DA store (checked under SpecDaDb).                    *)
(***************************************************************************)
\* C28: the DA store keeps the pending diff and the proof-job identifier of a
\* block as two independent mappings: for every block hash h, once
\* store_state_diff(h, d) and update_cairo_job(h, j) have both returned Ok, in
\* either order and whatever other operations follow that store no diff or job
\* for h, state_diff(h) returns d and cairo_job(h) returns j.
C28_IndependentMappings ==
    \A h \in DbHashes :
        (stored_diff[h] /= Nothing /\ stored_job[h] /= Nothing)
            => /\ StateDiffOf(da_column, h) = Ok(stored_diff[h][1])
               /\ CairoJob(da_column, h) = Ok(stored_job[h][1])

\* C29: L1 header store: write_l1_starknet_block_header(h) writes the entry
\* block_number -> header and the index entry block_hash -> block_number in
\* one transaction (both or neither); after any sequence of header writes,
\* whenever l1_starknet_block_header_from_block_hash(x) succeeds it returns a
\* header whose block_hash is x and which is what
\* l1_starknet_block_header_from_block_number returns for that header's number.
C29_HeaderIndexConsistent ==
    /\ [](\A x \in DbHashes :
            LET found == FromBlockHash(l1_header_column, x)
            IN found.kind = "Ok"
                => /\ found.value.block_hash = x
                   /\ FromBlockNumber(l1_header_column, found.value.block_number) = found)
    /\ [][\/ l1_header_column' = l1_header_column
          \/ \E h \in L1StarknetHeads :
               /\ Get(l1_header_column', EncodeU64(h.block_number)) = Some(EncodeHead(h))
               /\ Get(l1_header_column', EncodeHash(h.block_hash))
                    = Some(EncodeU64(h.block_number))
               /\ \A e \in l1_header_column' :
                    \/ e \in l1_header_column
                    \/ e.key \in {EncodeU64(h.block_number), EncodeHash(h.block_hash)}]_vars

(***************************************************************************)
(* Properties of the backward scans (checked under SpecDiff)               *)
(***************************************************************************)
\* a block number clamped at 0
ClampAtZero(x) == IF x > 0 THEN x ELSE 0

\* the k-th window of a backward scan from eth_from, k = 1, 2, ...
WindowAt(eth_from, k) ==
    [from |-> ClampAtZero(eth_from - (k * LOG_SEARCH_STEP)),
     to   |-> ClampAtZero(eth_from - ((k - 1) * LOG_SEARCH_STEP))]

\* the number of windows whose upper bound is above 0
NumWindows(eth_from) == (eth_from + LOG_SEARCH_STEP - 1) \div LOG_SEARCH_STEP

\* the windows start at [eth_from - LOG_SEARCH_STEP, eth_from] clamped at 0, each
\* one starts where the next begins, and the last one reaches block 0
WindowsCoverFromZero(eth_from) ==
    LET n == NumWindows(eth_from)
    IN /\ n >= 1
       /\ WindowAt(eth_from, 1) = [from |-> SaturatingSub(eth_from, LOG_SEARCH_STEP), to |-> eth_from]
       /\ \A k \in 1..n : /\ WindowAt(eth_from, k).to > 0
                          /\ WindowAt(eth_from, k).from >= 0
                          /\ WindowAt(eth_from, k).from <= WindowAt(eth_from, k).to
                          /\ k < n => WindowAt(eth_from, k + 1).to = WindowAt(eth_from, k).from
       /\ WindowAt(eth_from, n).from = 0
       /\ WindowAt(eth_from, n + 1).to = 0

\* the decodable logs of a fact in the k-th window
FactLogsAt(logs, eth_from, k, state_transition_fact) ==
    SelectSeq(logs, LAMBDA log : /\ InWindow(log, WindowAt(eth_from, k).from, WindowAt(eth_from, k).to)
                                 /\ ~log.decode_fails
                                 /\ log.fact = state_transition_fact)

\* what a search of the windows from the newest to the one reaching 0 yields
FirstWindowWithFact(logs, eth_from, state_transition_fact) ==
    LET hits == {k \in 1..NumWindows(eth_from) : FactLogsAt(logs, eth_from, k, state_transition_fact) /= <<>>}
    IN IF hits = {} THEN Err("Other")
       ELSE LET first == CHOOSE k \in hits : \A j \in hits : k <= j
            IN Ok(Head(FactLogsAt(logs, eth_from, first, state_transition_fact)).pages_hashes)

\* query_memory_page_fact_continuous_logs has returned Err after its last window
ContinuousGaveUp ==
    /\ page_logs /= <<>>
    /\ continuous_logs = <<>>
    /\ dpc = "err"
    /\ derr = "Other"

\* the pending page hashes no log of [0, update_l1] registers
Unregistered ==
    {h \in Range(pages_list) :
        \A i \in 1..Len(page_logs) :
            ~(page_logs[i].memory_hash = h /\ page_logs[i].block \in 0..update_l1)}

PagesHashesMissing ==
    /\ dpc = "err"
    /\ fact /= 0
    /\ page_logs = <<>>
    /\ continuous_logs = <<>>
    /\ derr /= "L1Connection"

\* query_memory_page_fact_continuous_logs has returned with a pending page hash
\* that no LogMemoryPageFactContinuous of [0, update_l1] registers
ContinuousMissing ==
    /\ page_logs /= <<>>
    /\ continuous_logs = <<>>
    /\ Unregistered /= {}

\* C31: missing pages: when the backward scan finds no LogMemoryPagesHashes for
\* the transition fact, or no LogMemoryPageFactContinuous for some pending page
\* hash, before the upper bound reaches 0, query_state_diff fails with
\* L1StateError and with no other kind of error.
C31_MissingPagesL1StateError ==
    (PagesHashesMissing \/ ContinuousMissing) => (dpc = "err" /\ derr = "L1StateError")

(***************************************************************************)
(* Properties of the forward scan (checked under Spec)                     *)
(***************************************************************************)
\* the filters of the call of query_state_update the fetcher is about to make
NextFilters == QueryStateUpdateFilters(chain, l1_head, eth_from_height, starknet_start_height)

\* the smaller of two block numbers
MinBlock(a, b) == IF a < b THEN a ELSE b

\* C32: forward paging clamps to the current head: the first window of
\* query_state_update is [eth_from, eth_from + STATE_SEARCH_STEP] brought down to
\* the head, every later window is the previous one advanced by LOG_SEARCH_STEP
\* on both bounds, and every filter it issues, on the first and on every later
\* iteration, has to_block <= the L1 head read at the start of the call.
C32_ForwardClampsToHead ==
    (main = "running" /\ fpc = "loop") =>
        /\ NextFilters[1] = [from |-> MinBlock(eth_from_height, l1_head),
                             to |-> MinBlock(eth_from_height + STATE_SEARCH_STEP, l1_head)]
        /\ \A i \in 2..Len(NextFilters) :
              /\ NextFilters[i].from = NextFilters[i - 1].from + LOG_SEARCH_STEP
              /\ NextFilters[i].to = NextFilters[i - 1].to + LOG_SEARCH_STEP
        /\ \A i \in 1..Len(NextFilters) : NextFilters[i].to <= l1_head

\* the filters of the backward scan from eth_from up to its k-th window return a
\* log on which decode_log fails
UndecodableReturned(logs, eth_from, k) ==
    \E i \in 1..Len(logs) : \E j \in 1..k :
        /\ logs[i].decode_fails
        /\ InWindow(logs[i], WindowAt(eth_from, j).from, WindowAt(eth_from, j).to)

\* C33: a log returned by the filter that fails ABI decoding makes the scan
\* return L1EventDecode; it is never silently skipped and never makes the scan
\* move on to another window.  Stated for query_memory_pages_hashes: whenever
\* its first window returns an undecodable log, the call returns L1EventDecode.
C33_DecodeFailureIsL1EventDecode ==
    dpc = "pages" =>
        \A logs \in VerifierLogSets(update_l1) :
            UndecodableReturned(logs, update_l1, 1)
                => QueryMemoryPagesHashes(logs, update_l1, fact) = Err("L1EventDecode")

(***************************************************************************)
(* Further properties of the provider pool (checked under SpecRetry)       *)
(***************************************************************************)
\* the endpoints of the configured list
Endpoints == 0..(eth_url_list - 1)

\* C34: every L1 RPC of the provider pool is retried across the endpoints
\* before L1Connection is surfaced: get_block_number and get_transaction return
\* L1Connection only when no endpoint is healthy and every endpoint has been
\* attempted; a failure of the first endpoint alone does not surface.
C34_EveryRpcRetried ==
    rpc \in {"block_number_failed", "transaction_failed"} =>
        /\ Endpoints \subseteq down
        /\ Endpoints \subseteq Range(attempts)

\* the call of query_state_update the fetcher is about to make returns a batch
NextFetchReturns ==
    /\ main = "running" /\ fpc = "loop"
    /\ QueryStateUpdate(chain, l1_head, eth_from_height, starknet_start_height).kind = "Ok"

\* the fetcher sends a batch
FetcherSends == Len(chan') = Len(chan) + 1

\* the L2 block numbers of a batch
L2NumbersOf(batch) == [i \in 1..Len(batch) |-> batch[i].l1_l2_block_mapping.l2_block_number]

\* C35: the forward scan skips no L1 block: when query_state_update returns a
\* batch found in window [f, t], every L1 block of [eth_from, f) lies in an
\* earlier window of the same call (each window starts no later than the block
\* after the end of the one before), and across successive fetches the L2 block
\* numbers delivered to the writer have no gap.
C35_ForwardScanSkipsNoBlock ==
    /\ [](NextFetchReturns =>
            \A i \in 2..Len(NextFilters) : NextFilters[i].from <= NextFilters[i - 1].to + 1)
    /\ [][(FetcherSends /\ lastSent /= <<>>) =>
            /\ L2NumbersOf(lastSent')[1] = L2NumbersOf(lastSent)[Len(lastSent)] + 1
            /\ \A i \in 2..Len(lastSent') :
                  L2NumbersOf(lastSent')[i] = L2NumbersOf(lastSent')[i - 1] + 1]_vars

(***************************************************************************)
(* Properties of the channel between the tasks (checked under Spec)        *)
(***************************************************************************)
\* a is an initial part of b
IsPrefix(a, b) == Len(a) <= Len(b) /\ SubSeq(b, 1, Len(a)) = a

\* the L2 block numbers of the received batches, batch after batch
ReceivedNumbers == Flatten([i \in 1..Len(received) |-> L2NumbersOf(received[i])])

\* C36: within one run of the pipeline the writer receives the batches in
\* exactly the order the fetcher sent them, none lost and none duplicated (the
\* batches received followed by those still in the channel are the batches
\* sent); apply_state_diff is called on the elements of the received batches
\* in their order, the L2 block numbers passed to it over all batches are
\* non-decreasing, and the fetcher's starknet_start_height strictly increases
\* with every batch it sends.
C36_FifoAndNonDecreasing ==
    /\ [](received \o chan = sent)
    /\ [](IsPrefix(applied, ReceivedNumbers))
    /\ [](\A i, j \in 1..Len(applied) : i < j => applied[i] <= applied[j])
    /\ [][FetcherSends => starknet_start_height' > starknet_start_height]_vars

\* in one run the writer has received two batches and apply_state_diff has been
\* called on every element of both
C36_Witness ==
    /\ Len(received) = 2
    /\ Len(applied) = Len(ReceivedNumbers)
    /\ Len(lastSent) >= 1
    /\ nBatches = 2
    /\ applied[Len(applied)] > applied[1]

(***************************************************************************)
(* Properties of concurrent get_logs_retry callers (checked under          *)
(* SpecTasks)                                                              *)
(***************************************************************************)
\* C37: under any interleaving of the get_logs_retry callers that share the
\* provider index, the index stays within [0, N), and a caller returns
\* L1Connection("All Ethereum nodes failed.") only after that caller has sent
\* get_logs to every one of the N endpoints at least once.
C37_SharedIndexAndFullPass ==
    /\ shared_provider_index \in 0..(task_url_list - 1)
    /\ \A t \in Tasks :
          task_pc[t] = "failed" => (0..(task_url_list - 1)) \subseteq task_attempted[t]

(***************************************************************************)
(* Further properties of query_state_diff (checked under SpecDiff)         *)
(***************************************************************************)
\* C38: query_state_diff never aborts on L1 data: when the LogMemoryPagesHashes
\* event lists zero pages (the reassembled page list is empty), or when the
\* calldata of a page's transaction does not decode as
\* registerContinuousMemoryPage, it returns an Error value and does not panic.
C38_NoPanicOnL1Data ==
    /\ dpc /= "panic"
    /\ (page_logs /= <<>> /\ pages_list = <<>>) => dpc = "err"

(***************************************************************************)
(* Further properties of publish_state_diff (checked under SpecDa)         *)
(***************************************************************************)
\* C39: publish_state_diff called with a diff of fewer than 3 cells returns an
\* error without calling last_published_state and without submitting any
\* transaction; with 3 or more cells it calls last_published_state exactly
\* once and submits at most one UpdateState transaction.
C39_ShortDiffRejected ==
    da_res /= "" =>
        IF Len(da_state_diff) < 3
        THEN /\ da_res = "Err"
             /\ LastPublishedStateCalls(da_state_diff, last_state) = 0
             /\ da_sent = <<>>
        ELSE /\ LastPublishedStateCalls(da_state_diff, last_state) = 1
             /\ Len(da_sent) <= 1

(***************************************************************************)
(* Properties of the pipeline across a restart (checked under Spec)        *)
(***************************************************************************)
\* apply_state_diff is called
ApplyCall == Len(applied') = Len(applied) + 1

\* what the first fetch of a run started now would return: fetcher_task takes
\* both numbers of the persisted mapping as its cursor
ResumedFetch ==
    QueryStateUpdate(chain, l1_head, persisted.l1_block_number, persisted.l2_block_number)

\* C40: each L2 block is applied at most once, also across a restart: when the
\* writer has persisted the cursor of a batch and run is started again from the
\* persisted mapping, the fetcher resumes strictly after the recorded pair (the
\* L2 block recorded in the mapping is not fetched again), and
\* apply_state_diff is never called for an L2 block it has already written.
C40_AppliedAtMostOnce ==
    /\ []((cursorBy = "writer" /\ ResumedFetch.kind = "Ok") =>
            \A i \in 1..Len(ResumedFetch.updates) :
                ResumedFetch.updates[i].update.block_number > persisted.l2_block_number)
    /\ [][ApplyCall => applied'[Len(applied')] \notin appliedOk]_vars

====
